---- MODULE Spec2Model ----
(***************************************************************************)
(* Concurrent analysis orchestration engine of OpenSafe                    *)
(* (src/native/src/comprehensive_showcase.rs): ThreadPool / Worker,        *)
(* AdvancedSafetyAnalyzer (registry, cache, metrics, analyze_with_timeout) *)
(* and the batch modes.                                                    *)
(*                                                                         *)
(* Time is discrete.  A running job and a waiting caller each carry a      *)
(* counter that Tick advances; Tick is taken only when no thread has an    *)
(* untimed step to take at the current instant.                            *)
(***************************************************************************)
EXTENDS Integers, Sequences, FiniteSets, TLC

\* ----------------------------------------------------------------- bounds
MaxJobs == 2         \* jobs ever submitted with execute, over all pools
MaxBatch == 2        \* longest batch handed to batch_analyze

ThreadCounts == {1, 2}                 \* values of config.thread_count
CacheSizes == {1}                      \* values of config.cache_size
Callers == {1, 2}                      \* threads calling the shared analyzer
OneCaller == {1}                       \* a single calling thread
ItemThread(i) == 2 + i                 \* thread spawned for batch item i
ThreadIds == Callers \cup {ItemThread(i) : i \in 1..MaxBatch}
BatchThread == 1                       \* the thread calling batch_analyze
SelfId == 0                            \* the caller's analyzer
AnalyzerIds == 0..MaxBatch             \* SelfId and one dummy per batch item
Texts == {"A", "B", "C"}
\* what callers of the shared analyzer register: (name, model)
Registrable == {<<"m1", "toxicity">>}
SlowDur == 1 + 1                       \* ticks the slow model needs for text C
MaxMatches == 2                        \* matches of one privacy pattern in a text
MaxJobDur == 2 * SlowDur               \* two registry entries, both slow
ShortTimeout == SlowDur - 1            \* a timeout the slow model exceeds
JobLimit == IF MaxJobs > MaxBatch THEN MaxJobs ELSE MaxBatch
Generous == JobLimit * MaxJobDur + 1    \* longer than all work ever pending
Timeouts == {ShortTimeout, Generous}
MaxTime == JobLimit * MaxJobDur        \* no run lasts longer than this
Scale == 2 ^ JobLimit                  \* metrics are kept in 1/Scale ms

Min(x, y) == IF x < y THEN x ELSE y

\* --------------------------------------------------------- result values
None == [kind |-> "None"]
Ok(s) == [kind |-> "Ok", score |-> s]
Err(e) == [kind |-> "Err", err |-> e]
IsOk(r) == r.kind = "Ok"
IsErr(r) == r.kind = "Err"
Panicked == [kind |-> "Panic"]         \* the call unwinds instead of returning

\* ------------------------------------------- AnalysisModel implementations
\* The trait objects a caller may register.  "toxicity" is slow on text C,
\* "strict" rejects text B, "offline" is never ready, "panicky" panics on
\* text C, "nested" reports a category whose name holds an underscore.
\* "toxicity" finds the texts C and D toxic, "exhausted" fails on text B
\* with another error than "strict".
is_ready(m) == m # "offline"

ModelDuration(m, content) == IF m = "toxicity" /\ content = "C" THEN SlowDur ELSE 1

ModelAnalyze(m, content) ==
    IF m = "panicky" /\ content = "C" THEN Panicked
    ELSE IF m = "strict"
    THEN IF content = "B"
         THEN Err("InvalidContent")
         ELSE Ok([categories |-> [k \in {"policy"} |-> [score |-> 80, confidence |-> 60]],
                  flags |-> <<>>])
    ELSE IF m = "exhausted"
    THEN IF content = "B"
         THEN Err("ResourceExhaustion")
         ELSE Ok([categories |-> [k \in {"load"} |-> [score |-> 60, confidence |-> 70]],
                  flags |-> <<>>])
    ELSE IF m = "nested"
    THEN Ok([categories |-> [k \in {"x_tox"} |-> [score |-> 40, confidence |-> 50]],
             flags |-> <<>>])
    ELSE Ok([categories |-> [k \in {"tox"} |->
                               [score |-> IF content \in {"C", "D"} THEN 20 ELSE 100,
                                confidence |-> 80]],
             flags |-> IF content \in {"C", "D"} THEN <<"ToxicityFound">> ELSE <<>>])

\* ------------------------------------------------------ content fingerprint
\* calculate_hash: DefaultHasher over the text, 64 bits wide.  The texts A,
\* B and C have pairwise distinct fingerprints; D stands for a text whose
\* fingerprint is that of A (texts are unbounded, fingerprints are not).
calculate_hash(content) ==
    CASE content = "A" -> 11
      [] content = "B" -> 23
      [] content = "C" -> 37
      [] content = "D" -> 11

\* ----------------------------------------------------------- aggregation
RECURSIVE SumOver(_, _)
SumOver(f, keys) ==
    IF keys = {} THEN 0
    ELSE LET k == CHOOSE x \in keys : TRUE
         IN f[k] + SumOver(f, keys \ {k})

\* variant: the mean is weighted by the confidence of each category
calculate_weighted_score_ByConfidence(category_scores) ==
    IF DOMAIN category_scores = {} THEN 0
    ELSE SumOver([k \in DOMAIN category_scores |->
                    category_scores[k].score * category_scores[k].confidence],
                 DOMAIN category_scores)
         \div SumOver([k \in DOMAIN category_scores |-> category_scores[k].confidence],
                      DOMAIN category_scores)

calculate_weighted_score(category_scores) ==
    IF DOMAIN category_scores = {} THEN 0
    ELSE SumOver([k \in DOMAIN category_scores |-> category_scores[k].score],
                 DOMAIN category_scores)
         \div Cardinality(DOMAIN category_scores)

calculate_confidence(category_scores) ==
    IF DOMAIN category_scores = {} THEN 0
    ELSE SumOver([k \in DOMAIN category_scores |-> category_scores[k].confidence],
                 DOMAIN category_scores)
         \div Cardinality(DOMAIN category_scores)

\* format!("{}_{}", model_name, category)
CategoryKey(model_name, category) == model_name \o "_" \o category

\* insert every (key, value) of src under its namespaced key into dst
MergeCategories(dst, model_name, src) ==
    LET newKeys == {CategoryKey(model_name, c) : c \in DOMAIN src}
    IN [k \in DOMAIN dst \cup newKeys |->
            IF k \in newKeys
            THEN src[CHOOSE c \in DOMAIN src : CategoryKey(model_name, c) = k]
            ELSE dst[k]]

EmptyMap == [k \in {} |-> 0]

\* variant: the loop queries every model, ready or not
RECURSIVE QueryModels_NoSkip(_, _, _, _)
QueryModels_NoSkip(content, reg, i, acc) ==
    IF i > Len(reg) THEN acc
    ELSE LET e == reg[i]
             r == ModelAnalyze(e.model, content)
             spent == acc.spent + ModelDuration(e.model, content)
         IN IF IsErr(r)
            THEN [acc EXCEPT !.err = r, !.spent = spent]
            ELSE QueryModels_NoSkip(content, reg, i + 1,
                    [acc EXCEPT
                       !.categories = MergeCategories(acc.categories, e.name,
                                                      r.score.categories),
                       !.flags = acc.flags \o r.score.flags,
                       !.spent = spent,
                       !.times = acc.times + ModelDuration(e.model, content)])

\* variant: the loop goes on after a failing model and keeps the last error
RECURSIVE QueryModels_LastError(_, _, _, _)
QueryModels_LastError(content, reg, i, acc) ==
    IF i > Len(reg) THEN acc
    ELSE LET e == reg[i]
         IN IF ~is_ready(e.model)
            THEN QueryModels_LastError(content, reg, i + 1, acc)
            ELSE LET r == ModelAnalyze(e.model, content)
                     spent == acc.spent + ModelDuration(e.model, content)
                 IN IF r = Panicked
                    THEN [acc EXCEPT !.err = r, !.spent = spent]
                    ELSE IF IsErr(r)
                    THEN QueryModels_LastError(content, reg, i + 1,
                            [acc EXCEPT !.err = r, !.spent = spent])
                    ELSE QueryModels_LastError(content, reg, i + 1,
                            [acc EXCEPT
                               !.categories = MergeCategories(acc.categories, e.name,
                                                              r.score.categories),
                               !.flags = acc.flags \o r.score.flags,
                               !.spent = spent,
                               !.times = acc.times + ModelDuration(e.model, content)])

\* The loop of perform_analysis over the registry in its iteration order.
\* acc.err is the error of the first failing ready model, after which no
\* further model is queried.
RECURSIVE QueryModels(_, _, _, _)
QueryModels(content, reg, i, acc) ==
    IF i > Len(reg) THEN acc
    ELSE LET e == reg[i]
         IN IF ~is_ready(e.model)
            THEN QueryModels(content, reg, i + 1, acc)
            ELSE LET r == ModelAnalyze(e.model, content)
                     spent == acc.spent + ModelDuration(e.model, content)
                 IN IF IsErr(r) \/ r = Panicked
                    THEN [acc EXCEPT !.err = r, !.spent = spent]
                    ELSE QueryModels(content, reg, i + 1,
                            [acc EXCEPT
                               !.categories = MergeCategories(acc.categories, e.name,
                                                              r.score.categories),
                               !.flags = acc.flags \o r.score.flags,
                               !.spent = spent,
                               !.times = acc.times + ModelDuration(e.model, content)])

QueryAll(content, reg) ==
    QueryModels(content, reg, 1,
                [categories |-> EmptyMap, flags |-> <<>>, spent |-> 0, times |-> 0,
                 err |-> None])

\* variant: an empty registry is queried like any other
perform_analysis_NoEmptyCheck(content, reg, t) ==
    LET q == QueryAll(content, reg)
    IN IF q.err # None THEN q.err
       ELSE Ok([overall_score |-> calculate_weighted_score(q.categories),
                confidence |-> calculate_confidence(q.categories),
                categories |-> q.categories,
                flags |-> q.flags,
                processing_time_ms |-> q.times,
                timestamp |-> t])

\* perform_analysis, evaluated under the read guard of the registry; t is
\* the wall clock read by create_metadata.
perform_analysis(content, reg, t) ==
    IF reg = <<>> THEN Err("ModelLoadError")
    ELSE LET q == QueryAll(content, reg)
         IN IF q.err # None THEN q.err
            ELSE Ok([overall_score |-> calculate_weighted_score(q.categories),
                     confidence |-> calculate_confidence(q.categories),
                     categories |-> q.categories,
                     flags |-> q.flags,
                     processing_time_ms |-> q.times,
                     timestamp |-> t])

\* ticks a job spends inside perform_analysis
JobDuration(content, reg) == IF reg = <<>> THEN 0 ELSE QueryAll(content, reg).spent


\* ------------------------------------------- safety.rs: the rule detector
\* Strings that the detector inspects character by character are sequences
\* of one-character strings.
UpperCase == <<"A", "B", "C", "D", "E", "F", "G", "H", "I", "J", "K", "L", "M", "N", "O", "P", "Q", "R", "S", "T", "U", "V", "W", "X", "Y", "Z">>
LowerCase == <<"a", "b", "c", "d", "e", "f", "g", "h", "i", "j", "k", "l", "m", "n", "o", "p", "q", "r", "s", "t", "u", "v", "w", "x", "y", "z">>

\* char::to_lowercase on the characters used here
LowerChar(ch) ==
    IF \E i \in 1..Len(UpperCase) : UpperCase[i] = ch
    THEN LowerCase[CHOOSE i \in 1..Len(UpperCase) : UpperCase[i] = ch]
    ELSE ch

\* str::to_lowercase
to_lowercase(str) == [i \in 1..Len(str) |-> LowerChar(str[i])]

\* str::contains
contains(str, pat) ==
    \E i \in 1..(Len(str) - Len(pat) + 1) : SubSeq(str, i, i + Len(pat) - 1) = pat

Some(x) == [kind |-> "Some", value |-> x]

\* The number of regular expressions of each category (SafetyAnalyzer::new)
HarmfulPatterns == 5
BiasPatterns == 5
PrivacyPatterns == 5
IllegalPatterns == 4
MisinformationPatterns == 5

\* A text is given by what the regular expressions find in it: per category
\* the set of patterns with a match (in the lowercased text), and for the
\* privacy patterns the number of matches of each (in the original text).
\* The matched substring of pattern k stands as [category, k], a string
\* literal of the code as [literal |-> it].
Matched(category, k) == [category |-> category, pattern |-> k]

\* confidences in 1/1000, severity weights in 1/10, scores in 1/10000
HarmfulConfidence == 950
BiasConfidence == 800
PrivacyConfidence == 900
IllegalConfidence == 850
MisinformationConfidence == 750
One == 10000

Violation(type, severity, description, confidence, evidence) ==
    [type |-> type, severity |-> severity, description |-> description,
     confidence |-> confidence, evidence |-> evidence]

\* the patterns of 1..n that matched, in the order of the pattern vector
InOrder(matches, n) == SelectSeq([k \in 1..n |-> k], LAMBDA k : k \in matches)

check_harmful_content(text) ==
    LET hit == InOrder(text.harmful, HarmfulPatterns)
    IN [i \in 1..Len(hit) |->
          Violation("harmful_content", "critical",
                    "Text contains potentially harmful content",
                    HarmfulConfidence, <<Matched("harmful_content", hit[i])>>)]

check_bias(text) ==
    LET hit == InOrder(text.bias, BiasPatterns)
    IN [i \in 1..Len(hit) |->
          Violation("bias", "high", "Text contains potentially biased content",
                    BiasConfidence, <<Matched("bias", hit[i])>>)]

\* find_iter: one violation per match of each pattern, evidence redacted
RECURSIVE PrivacyFrom(_, _)
PrivacyFrom(text, k) ==
    IF k > PrivacyPatterns THEN <<>>
    ELSE [i \in 1..text.privacy[k] |->
            Violation("privacy", "high",
                      "Text contains personally identifiable information",
                      PrivacyConfidence, <<[literal |-> "[REDACTED]"]>>)]
         \o PrivacyFrom(text, k + 1)

\* variant: one violation per matching pattern, with the match as evidence
check_privacy_EchoesMatch(text) ==
    LET hit == SelectSeq([k \in 1..PrivacyPatterns |-> k], LAMBDA k : text.privacy[k] > 0)
    IN [i \in 1..Len(hit) |->
          Violation("privacy", "high",
                    "Text contains personally identifiable information",
                    PrivacyConfidence, <<Matched("privacy", hit[i])>>)]

check_privacy(text) == PrivacyFrom(text, 1)

check_illegal_content(text) ==
    LET hit == InOrder(text.illegal, IllegalPatterns)
    IN [i \in 1..Len(hit) |->
          Violation("illegal_content", "critical",
                    "Text contains references to illegal activities",
                    IllegalConfidence, <<Matched("illegal_content", hit[i])>>)]

check_misinformation(text) ==
    LET hit == InOrder(text.misinformation, MisinformationPatterns)
    IN [i \in 1..Len(hit) |->
          Violation("misinformation", "medium",
                    "Text contains potential misinformation",
                    MisinformationConfidence, <<Matched("misinformation", hit[i])>>)]

\* the results of the five checks, concatenated in the order of the checks
Checked(text) ==
    check_harmful_content(text) \o check_bias(text) \o check_privacy(text)
       \o check_illegal_content(text) \o check_misinformation(text)

\* the condition of adjust_for_context on the lowercased context
MentionsField(context) ==
    LET context_lower == to_lowercase(context)
    IN \/ contains(context_lower, <<"m", "e", "d", "i", "c", "a", "l">>)
       \/ contains(context_lower,
                   <<"e", "d", "u", "c", "a", "t", "i", "o", "n", "a", "l">>)
       \/ contains(context_lower, <<"a", "c", "a", "d", "e", "m", "i", "c">>)
       \/ contains(context_lower, <<"r", "e", "s", "e", "a", "r", "c", "h">>)

\* variant: two separate tests, so that a critical violation is lowered twice
adjust_for_context_TwoIfs(violations, context) ==
    IF MentionsField(context)
    THEN [i \in 1..Len(violations) |->
            LET v == violations[i]
                w == IF v.severity = "critical"
                     THEN [v EXCEPT !.severity = "high",
                                    !.confidence = (@ * 7) \div 10]
                     ELSE v
            IN IF w.severity = "high"
               THEN [w EXCEPT !.severity = "medium", !.confidence = (@ * 8) \div 10]
               ELSE w]
    ELSE violations

adjust_for_context(violations, context) ==
    IF MentionsField(context)
    THEN [i \in 1..Len(violations) |->
            LET v == violations[i]
            IN IF v.severity = "critical"
               THEN [v EXCEPT !.severity = "high", !.confidence = (@ * 7) \div 10]
               ELSE IF v.severity = "high"
               THEN [v EXCEPT !.severity = "medium", !.confidence = (@ * 8) \div 10]
               ELSE v]
    ELSE violations

\* variant: "critical" is missing from the map, so it gets the default weight
severity_weight_NoCritical(severity) ==
    CASE severity = "low" -> 1
      [] severity = "medium" -> 3
      [] severity = "high" -> 6
      [] OTHER -> 5

\* severity_weights.get(severity).unwrap_or(&0.5)
severity_weight(severity) ==
    CASE severity = "low" -> 1
      [] severity = "medium" -> 3
      [] severity = "high" -> 6
      [] severity = "critical" -> 10
      [] OTHER -> 5

RECURSIVE total_weight(_)
total_weight(violations) ==
    IF violations = <<>> THEN 0
    ELSE severity_weight(violations[1].severity) * violations[1].confidence
         + total_weight(Tail(violations))

\* variant: no violations give the lowest score
calculate_safety_score_EmptyIsZero(violations) ==
    IF violations = <<>> THEN 0
    ELSE LET capped == Min(total_weight(violations), One)
             score == One - capped
         IN IF score > 0 THEN score ELSE 0

calculate_safety_score(violations) ==
    IF violations = <<>> THEN One
    ELSE LET capped == Min(total_weight(violations), One)
             score == One - capped
         IN IF score > 0 THEN score ELSE 0

\* variant: the score is computed before the context adjustment
analyze_ScoresBeforeAdjustment(text, context) ==
    LET found == Checked(text)
        violations == IF context = None THEN found
                      ELSE adjust_for_context(found, context.value)
    IN [safe |-> violations = <<>>,
        score |-> calculate_safety_score(found),
        violations |-> violations,
        pattern_matches |-> Len(found)]

\* SafetyAnalyzer::analyze without the metadata's clock readings
analyze(text, context) ==
    LET found == Checked(text)
        violations == IF context = None THEN found
                      ELSE adjust_for_context(found, context.value)
    IN [safe |-> violations = <<>>,
        score |-> calculate_safety_score(violations),
        violations |-> violations,
        pattern_matches |-> Len(found)]

NoAnalysis == [text |-> None, context |-> None, result |-> None]

\* ------------------------------------------------------------------ state
VARIABLES
    config,        \* AnalyzerConfig: thread_count, cache_size,
                   \* enable_parallel_processing, timeout_ms
    models,        \* the registry, in the iteration order of its HashMap
    now,           \* wall clock
    life,          \* per analyzer: unborn / alive / joining / dropped, the join index,
                   \* and how many jobs were queued when the pool was dropped
    cache,         \* per analyzer: fingerprint -> SafetyScore
    metrics,       \* per analyzer: avg_processing_time_ms (in 1/Scale ms)
    sender,        \* per pool: TRUE while ThreadPool.sender is Some
    queue,         \* per pool: the mpsc channel of jobs
    receiverLock,  \* per pool: the worker holding the receiver mutex, 0 if free
    workers,       \* per pool: the worker threads
    jobs,          \* every closure ever passed to execute, with its response channel
                   \* (rx: the receiving end exists; gaveUp: where the job was when
                   \* its caller timed out; load: for a closure handed to the
                   \* pool directly, the pool as execute found it)
    calls,         \* per thread: its call of analyze_with_timeout and what it returned
    since,         \* per thread: what happened since its call returned
    batch,         \* the thread inside batch_analyze
    items,         \* parallel batch: the thread spawned for each item
    chan,          \* parallel batch: the fan-in channel of (index, result)
    poisoned,      \* the locks of the shared analyzer that are poisoned
    detector       \* the last call of SafetyAnalyzer::analyze: inputs and result

vars == <<config, models, now, life, cache, metrics, sender, queue, receiverLock,
          workers, jobs, calls, since, batch, items, chan, poisoned, detector>>

batchVars == <<batch, items, chan>>

poolVars == <<sender, queue, receiverLock, workers>>

WorkerIds == 1..config.thread_count

\* view: the registry as the job's read guard found it
IdleWorker == [st |-> "idle", job |-> 0, left |-> 0, view |-> <<>>]

IdleCall == [pc |-> "idle", content |-> "A", timeout |-> ShortTimeout, elapsed |-> 0,
             job |-> 0, ret |-> None]

\* since[c].reg: a model was registered; since[c].write: another call wrote
\* the cache entry of the same text
Quiet == [reg |-> FALSE, write |-> FALSE]

IdleBatch == [pc |-> "idle", contents |-> <<>>, results |-> <<>>, idx |-> 0, got |-> 0,
              joined |-> 0, firstSent |-> None, ret |-> None]

\* the pool of analyzer a as execute finds it: busy workers, queued jobs
Load(a) ==
    [busy |-> Cardinality({w \in WorkerIds : workers[a][w].st = "busy"}),
     queued |-> Len(queue[a])]

\* variant: the item threads call the caller's analyzer
AnalyzerOf_Shared(c) == SelfId

\* the analyzer a thread calls: the shared one, or the dummy of its batch item
AnalyzerOf(c) == IF c \in Callers THEN SelfId ELSE c - 2

\* variant: the insert is lost
Put_Lost(f, k, v) == f

\* HashMap::insert on the cache
\* variant: an insert at capacity first removes the smallest fingerprint
Put_EvictsAtCapacity(f, k, v) ==
    LET keep == IF k \notin DOMAIN f /\ Cardinality(DOMAIN f) >= config.cache_size
                THEN DOMAIN f \ {CHOOSE x \in DOMAIN f : \A y \in DOMAIN f : x <= y}
                ELSE DOMAIN f
    IN [x \in keep \cup {k} |-> IF x = k THEN v ELSE f[x]]

Put(f, k, v) == [x \in DOMAIN f \cup {k} |-> IF x = k THEN v ELSE f[x]]

\* AdvancedSafetyAnalyzer::new and ThreadPool::new for analyzer SelfId
Init ==
    /\ config \in [thread_count : ThreadCounts,
                   cache_size : CacheSizes,
                   enable_parallel_processing : {TRUE},
                   timeout_ms : {ShortTimeout}]
    /\ models = <<>>
    /\ now = 0
    /\ life = [a \in AnalyzerIds |->
                 [st |-> IF a = SelfId THEN "alive" ELSE "unborn", joinIdx |-> 0,
                  pending |-> 0]]
    /\ cache = [a \in AnalyzerIds |-> EmptyMap]
    /\ metrics = [a \in AnalyzerIds |-> 0]
    /\ sender = [a \in AnalyzerIds |-> a = SelfId]
    /\ queue = [a \in AnalyzerIds |-> <<>>]
    /\ receiverLock = [a \in AnalyzerIds |-> 0]
    /\ workers = [a \in AnalyzerIds |-> [w \in WorkerIds |-> IdleWorker]]
    /\ jobs = <<>>
    /\ calls = [c \in ThreadIds |-> IdleCall]
    /\ since = [c \in ThreadIds |-> Quiet]
    /\ batch = IdleBatch
    /\ items = [i \in 1..MaxBatch |-> "none"]
    /\ chan = <<>>
    /\ poisoned = {}
    /\ detector = NoAnalysis

\* AdvancedSafetyAnalyzer::new and ThreadPool::new for analyzer SelfId: all
\* of the state but the configuration and the registry
Constructed ==
    /\ now = 0
    /\ life = [a \in AnalyzerIds |->
                 [st |-> IF a = SelfId THEN "alive" ELSE "unborn", joinIdx |-> 0,
                  pending |-> 0]]
    /\ cache = [a \in AnalyzerIds |-> EmptyMap]
    /\ metrics = [a \in AnalyzerIds |-> 0]
    /\ sender = [a \in AnalyzerIds |-> a = SelfId]
    /\ queue = [a \in AnalyzerIds |-> <<>>]
    /\ receiverLock = [a \in AnalyzerIds |-> 0]
    /\ workers = [a \in AnalyzerIds |-> [w \in WorkerIds |-> IdleWorker]]
    /\ jobs = <<>>
    /\ calls = [c \in ThreadIds |-> IdleCall]
    /\ since = [c \in ThreadIds |-> Quiet]
    /\ batch = IdleBatch
    /\ items = [i \in 1..MaxBatch |-> "none"]
    /\ chan = <<>>
    /\ poisoned = {}
    /\ detector = NoAnalysis

\* ------------------------------------------------------------- registry
\* every way of placing a new entry into the iteration order
InsertAnywhere(reg, e) ==
    {SubSeq(reg, 1, i) \o <<e>> \o SubSeq(reg, i + 1, Len(reg)) : i \in 0..Len(reg)}

HasName(reg, name) == \E i \in 1..Len(reg) : reg[i].name = name

\* HashMap::insert: a present key keeps its place and gets the new value
Inserted(reg, name, model) ==
    IF HasName(reg, name)
    THEN {[i \in 1..Len(reg) |->
             IF reg[i].name = name THEN [name |-> name, model |-> model] ELSE reg[i]]}
    ELSE InsertAnywhere(reg, [name |-> name, model |-> model])

\* a job inside perform_analysis holds the read guard of the registry
ReadGuardHeld == \E a \in AnalyzerIds : \E w \in WorkerIds : workers[a][w].st = "busy"

\* variant: the registry is written while jobs read it
RegisterModel_NoExclusion(name, model) ==
    /\ life[SelfId].st = "alive"
    /\ "models" \notin poisoned
    /\ models' \in Inserted(models, name, model)
    /\ since' = [c \in ThreadIds |-> [since[c] EXCEPT !.reg = IsOk(calls[c].ret)]]
    /\ UNCHANGED <<config, poisoned, detector, now, life, cache, metrics, poolVars, jobs, calls>>

\* variant: registering a model empties the cache
RegisterModel_Invalidates(name, model) ==
    /\ life[SelfId].st = "alive"
    /\ "models" \notin poisoned
    /\ ~ReadGuardHeld
    /\ models' \in Inserted(models, name, model)
    /\ cache' = [cache EXCEPT ![SelfId] = EmptyMap]
    /\ since' = [c \in ThreadIds |-> [since[c] EXCEPT !.reg = IsOk(calls[c].ret)]]
    /\ UNCHANGED <<config, poisoned, detector, now, life, metrics, poolVars, jobs, calls>>

\* register_model: waits for the write lock, inserts (on a poisoned lock it
\* returns ConcurrencyError and changes nothing)
RegisterModel(name, model) ==
    /\ life[SelfId].st = "alive"
    /\ "models" \notin poisoned
    /\ ~ReadGuardHeld
    /\ models' \in Inserted(models, name, model)
    /\ since' = [c \in ThreadIds |-> [since[c] EXCEPT !.reg = IsOk(calls[c].ret)]]
    /\ UNCHANGED <<config, poisoned, detector, now, life, cache, metrics, poolVars, jobs, calls>>

\* ------------------------------------------------------------------ locks
Locks == {"models", "cache", "metrics"}

\* self.cache.lock() of analyzer a returns Ok
CacheUsable(a) == ~(a = SelfId /\ "cache" \in poisoned)

\* self.metrics.lock() of analyzer a returns Ok
MetricsUsable(a) == ~(a = SelfId /\ "metrics" \in poisoned)

\* the cache check of analyze_with_timeout finds fingerprint h: the lock is
\* taken (a poisoned lock skips the check) and the map holds the key
Cached(a, h) == CacheUsable(a) /\ h \in DOMAIN cache[a]

\* the job closure: perform_analysis with models.read() mapped to
\* ConcurrencyError when the registry lock is poisoned
Analysis(content, t) ==
    IF "models" \in poisoned THEN Err("ConcurrencyError")
    ELSE perform_analysis(content, models, t)

\* ticks the job closure runs
AnalysisDuration(content) ==
    IF "models" \in poisoned THEN 0 ELSE JobDuration(content, models)

\* ------------------------------------------------------------ ThreadPool
\* variant: a job is rejected when as many jobs wait as there are workers
Execute_RejectsWhenFull(q, job) ==
    IF Len(q) >= config.thread_count THEN q ELSE Append(q, job)

\* the receiver is owned by the worker threads alone (ThreadPool::new drops
\* its own Arc): it is dropped when the last of them has ended
ReceiverDropped(a) == \A w \in WorkerIds : workers[a][w].st \in {"dead", "exited"}

\* ThreadPool::execute: box the closure and send it on the channel
Execute(q, job) == Append(q, job)

\* Worker loop: receiver.lock()
WorkerLock(a, w) ==
    /\ life[a].st \in {"alive", "joining"}
    /\ workers[a][w].st = "idle"
    /\ receiverLock[a] = 0
    /\ receiverLock' = [receiverLock EXCEPT ![a] = w]
    /\ workers' = [workers EXCEPT ![a][w].st = "recv"]
    /\ UNCHANGED <<config, poisoned, detector, models, now, life, cache, metrics, sender, queue, jobs, calls,
                   since>>

\* variant: recv() hands out the head and leaves it in the channel
Dequeued_Peek(q) == q

\* what recv() leaves in the channel after handing out its head
Dequeued(q) == Tail(q)

\* variant: the guard of the receiver lives as long as the job runs
WorkerRecv_KeepsLock(a, w) ==
    /\ workers[a][w].st = "recv"
    /\ queue[a] # <<>>
    /\ LET j == Head(queue[a])
       IN /\ queue' = [queue EXCEPT ![a] = Dequeued(queue[a])]
          /\ workers' = [workers EXCEPT ![a][w] =
                            [st |-> "busy", job |-> j,
                             left |-> AnalysisDuration(jobs[j].content),
                             view |-> models]]
          /\ jobs' = [jobs EXCEPT ![j].st = "running", ![j].runs = @ + 1]
    /\ UNCHANGED <<config, poisoned, detector, models, now, life, cache, metrics, sender, calls, since,
                   receiverLock>>

\* Worker loop: recv() returns Ok(job); the guard is released at the end of
\* the let statement and the job starts (perform_analysis takes the read guard)
WorkerRecv(a, w) ==
    /\ workers[a][w].st = "recv"
    /\ queue[a] # <<>>
    /\ LET j == Head(queue[a])
       IN /\ queue' = [queue EXCEPT ![a] = Dequeued(queue[a])]
          /\ workers' = [workers EXCEPT ![a][w] =
                            [st |-> "busy", job |-> j,
                             left |-> AnalysisDuration(jobs[j].content),
                             view |-> models]]
          /\ jobs' = [jobs EXCEPT ![j].st = "running", ![j].runs = @ + 1]
    /\ receiverLock' = [receiverLock EXCEPT ![a] = 0]
    /\ UNCHANGED <<config, poisoned, detector, models, now, life, cache, metrics, sender, calls, since>>

\* variant: the worker leaves its loop as soon as the sender is dropped
WorkerExit_OnClose(a, w) ==
    /\ workers[a][w].st = "recv"
    /\ ~sender[a]
    /\ workers' = [workers EXCEPT ![a][w].st = "exited"]
    /\ receiverLock' = [receiverLock EXCEPT ![a] = 0]
    /\ UNCHANGED <<config, poisoned, detector, models, now, life, cache, metrics, sender, queue, jobs, calls,
                   since>>

\* Worker loop: recv() returns Err once the sender is dropped and the channel
\* is empty; the worker breaks out of its loop
WorkerExit(a, w) ==
    /\ workers[a][w].st = "recv"
    /\ queue[a] = <<>>
    /\ ~sender[a]
    /\ workers' = [workers EXCEPT ![a][w].st = "exited"]
    /\ receiverLock' = [receiverLock EXCEPT ![a] = 0]
    /\ UNCHANGED <<config, poisoned, detector, models, now, life, cache, metrics, sender, queue, jobs, calls,
                   since>>

\* variant: the send blocks until a receiver takes the result
JobDone_BlocksOnSend(a, w) ==
    /\ workers[a][w].st = "busy"
    /\ workers[a][w].left = 0
    /\ jobs[workers[a][w].job].rx
    /\ LET j == workers[a][w].job
           r == Analysis(jobs[j].content, now)
       IN jobs' = [jobs EXCEPT ![j].st = "sent", ![j].result = r]
    /\ workers' = [workers EXCEPT ![a][w] = IdleWorker]
    /\ UNCHANGED <<config, poisoned, detector, models, now, life, cache, metrics, sender, queue, receiverLock,
                   calls, since>>

\* variant: the job itself writes its result through to the cache
JobDone_WritesThrough(a, w) ==
    /\ workers[a][w].st = "busy"
    /\ workers[a][w].left = 0
    /\ LET j == workers[a][w].job
           r == Analysis(jobs[j].content, now)
       IN /\ jobs' = [jobs EXCEPT ![j].st = IF jobs[j].rx THEN "sent" ELSE "discarded",
                                  ![j].result = r]
          /\ cache' = IF IsOk(r)
                      THEN [cache EXCEPT ![a] =
                              [x \in DOMAIN cache[a] \cup {calculate_hash(jobs[j].content)} |->
                                 IF x = calculate_hash(jobs[j].content) THEN r.score
                                 ELSE cache[a][x]]]
                      ELSE cache
    /\ workers' = [workers EXCEPT ![a][w] = IdleWorker]
    /\ UNCHANGED <<config, poisoned, detector, models, now, life, metrics, sender, queue, receiverLock,
                   calls, since>>

\* the job closure ends: perform_analysis returns, `let _ = tx.send(result)`
\* delivers the result if the receiving end still exists, else drops it.
\* If perform_analysis panics, the closure unwinds: tx is dropped with
\* nothing sent and the worker's thread ends with the panic.
JobDone(a, w) ==
    /\ workers[a][w].st = "busy"
    /\ workers[a][w].left = 0
    /\ LET j == workers[a][w].job
           r == Analysis(jobs[j].content, now)
       IN IF r = Panicked
          THEN /\ jobs' = [jobs EXCEPT ![j].st = "panicked"]
               /\ workers' = [workers EXCEPT ![a][w] = [IdleWorker EXCEPT !.st = "dead"]]
          ELSE /\ jobs' = [jobs EXCEPT ![j].st = IF jobs[j].rx THEN "sent" ELSE "discarded",
                                       ![j].result = r]
               /\ workers' = [workers EXCEPT ![a][w] = IdleWorker]
    /\ UNCHANGED <<config, poisoned, detector, models, now, life, cache, metrics, sender, queue, receiverLock,
                   calls, since>>

\* Drop for AdvancedSafetyAnalyzer -> Drop for ThreadPool: drop(sender.take())
DropPool(a) ==
    /\ life[a].st = "alive"
    /\ \A c \in ThreadIds : AnalyzerOf(c) = a => calls[c].pc = "idle"
    /\ sender' = [sender EXCEPT ![a] = FALSE]
    /\ life' = [life EXCEPT ![a] = [st |-> "joining", joinIdx |-> 1,
                                    pending |-> Len(queue[a])]]
    /\ UNCHANGED <<config, poisoned, detector, models, now, cache, metrics, queue, receiverLock, workers, jobs,
                   calls, since>>

\* Drop for ThreadPool: thread.join() of the next worker; after the last one
\* drop returns
JoinWorker(a) ==
    /\ life[a].st = "joining"
    /\ workers[a][life[a].joinIdx].st = "exited"
    /\ life' = [life EXCEPT ![a] =
                  IF life[a].joinIdx = config.thread_count
                  THEN [life[a] EXCEPT !.st = "dropped"]
                  ELSE [life[a] EXCEPT !.joinIdx = @ + 1]]
    /\ UNCHANGED <<config, poisoned, detector, models, now, cache, metrics, poolVars, jobs, calls, since>>

\* ------------------------------------------------- analyze_with_timeout
\* variant: the average is updated twice for one call
update_metrics_Twice(avg, duration) ==
    (((avg + duration * Scale) \div 2) + duration * Scale) \div 2

\* update_metrics: avg = (avg + duration_ms) / 2
update_metrics(avg, duration) == (avg + duration * Scale) \div 2

\* thread c returns from a call on content; wrote: it inserted into the cache
Returned(c, content, wrote) ==
    since' = [d \in ThreadIds |->
                IF d = c THEN Quiet
                ELSE IF wrote /\ calls[d].content = content /\ IsOk(calls[d].ret)
                          /\ AnalyzerOf(d) = AnalyzerOf(c)
                     THEN [since[d] EXCEPT !.write = TRUE]
                     ELSE since[d]]

\* variant: a cache hit is counted in the latency metric as well
CacheHit_UpdatesMetrics(c, content, timeout) ==
    LET a == AnalyzerOf(c)
        h == calculate_hash(content)
    IN /\ life[a].st = "alive"
       /\ calls[c].pc = "idle"
       /\ Cached(a, h)
       /\ calls' = [calls EXCEPT ![c] =
                      [IdleCall EXCEPT !.content = content, !.ret = Ok(cache[a][h])]]
       /\ Returned(c, content, FALSE)
       /\ metrics' = [metrics EXCEPT ![a] = update_metrics(@, 1)]
       /\ UNCHANGED <<config, poisoned, detector, models, now, life, cache, poolVars, jobs>>

\* the cache check finds the fingerprint: return the clone
CacheHit(c, content, timeout) ==
    LET a == AnalyzerOf(c)
        h == calculate_hash(content)
    IN /\ life[a].st = "alive"
       /\ calls[c].pc = "idle"
       /\ Cached(a, h)
       /\ calls' = [calls EXCEPT ![c] =
                      [IdleCall EXCEPT !.content = content, !.ret = Ok(cache[a][h])]]
       /\ Returned(c, content, FALSE)
       /\ UNCHANGED <<config, poisoned, detector, models, now, life, cache, metrics, poolVars, jobs>>

\* variant: the guard of the cache check is kept until the call returns, so
\* the check waits while another call is waiting for its job
Dispatch_HoldsCacheLock(c, content, timeout) ==
    LET a == AnalyzerOf(c)
        h == calculate_hash(content)
        j == Len(jobs) + 1
    IN /\ life[a].st = "alive"
       /\ calls[c].pc = "idle"
       /\ ~Cached(a, h)
       /\ \A d \in ThreadIds : AnalyzerOf(d) = a => calls[d].pc # "waiting"
       /\ j <= JobLimit
       /\ jobs' = Append(jobs, [an |-> a, content |-> content, tx |-> c, st |-> "queued",
                                rx |-> TRUE, gaveUp |-> "no", runs |-> 0, result |-> None,
                                load |-> None])
       /\ queue' = [queue EXCEPT ![a] = Execute(queue[a], j)]
       /\ calls' = [calls EXCEPT ![c] =
                      [pc |-> "waiting", content |-> content, timeout |-> timeout,
                       elapsed |-> 0, job |-> j, ret |-> None]]
       /\ since' = [since EXCEPT ![c] = Quiet]
       /\ UNCHANGED <<config, poisoned, detector, models, now, life, cache, metrics, sender, receiverLock,
                      workers>>

\* the cache check misses: create the response channel, execute the closure,
\* block in rx.recv_timeout(timeout).  With the receiver gone the send in
\* execute fails and its unwrap panics in the calling thread.
Dispatch(c, content, timeout) ==
    LET a == AnalyzerOf(c)
        h == calculate_hash(content)
        j == Len(jobs) + 1
    IN /\ life[a].st = "alive"
       /\ calls[c].pc = "idle"
       /\ ~Cached(a, h)
       /\ IF ReceiverDropped(a)
          THEN /\ calls' = [calls EXCEPT ![c] =
                             [IdleCall EXCEPT !.pc = "panicked", !.content = content,
                                              !.ret = Panicked]]
               /\ UNCHANGED <<jobs, queue>>
          ELSE /\ j <= JobLimit
               /\ jobs' = Append(jobs, [an |-> a, content |-> content, tx |-> c,
                                        st |-> "queued", rx |-> TRUE, gaveUp |-> "no",
                                        runs |-> 0, result |-> None, load |-> None])
               /\ queue' = [queue EXCEPT ![a] = Execute(queue[a], j)]
               /\ calls' = [calls EXCEPT ![c] =
                              [pc |-> "waiting", content |-> content, timeout |-> timeout,
                               elapsed |-> 0, job |-> j, ret |-> None]]
       /\ since' = [since EXCEPT ![c] = Quiet]
       /\ UNCHANGED <<config, poisoned, detector, models, now, life, cache, metrics, sender, receiverLock,
                      workers>>

\* variant: the metrics are updated before the received result is inspected
Receive_CountsFailures(c) ==
    LET a == AnalyzerOf(c)
        j == calls[c].job
        h == calculate_hash(calls[c].content)
    IN /\ calls[c].pc = "waiting"
       /\ jobs[j].st = "sent"
       /\ jobs' = [jobs EXCEPT ![j].st = "received"]
       /\ calls' = [calls EXCEPT ![c] =
                      [IdleCall EXCEPT !.content = calls[c].content, !.job = j,
                                       !.elapsed = calls[c].elapsed,
                                       !.ret = jobs[j].result]]
       /\ Returned(c, calls[c].content, IsOk(jobs[j].result) /\ CacheUsable(a))
       /\ cache' = IF IsOk(jobs[j].result) /\ CacheUsable(a)
                   THEN [cache EXCEPT ![a] = Put(cache[a], h, jobs[j].result.score)]
                   ELSE cache
       /\ metrics' = IF MetricsUsable(a)
                     THEN [metrics EXCEPT ![a] = update_metrics(@, calls[c].elapsed)]
                     ELSE metrics
       /\ UNCHANGED <<config, poisoned, detector, models, now, life, poolVars>>

\* recv_timeout returns Ok(result): an Err result is returned as it is; an Ok
\* result is written to the cache, the metrics are updated, it is returned
\* (a poisoned cache or metrics lock skips the insert or the update)
Receive(c) ==
    LET a == AnalyzerOf(c)
        j == calls[c].job
        h == calculate_hash(calls[c].content)
    IN /\ calls[c].pc = "waiting"
       /\ jobs[j].st = "sent"
       /\ jobs' = [jobs EXCEPT ![j].st = "received"]
       /\ calls' = [calls EXCEPT ![c] =
                      [IdleCall EXCEPT !.content = calls[c].content, !.job = j,
                                       !.elapsed = calls[c].elapsed,
                                       !.ret = jobs[j].result]]
       /\ Returned(c, calls[c].content, IsOk(jobs[j].result) /\ CacheUsable(a))
       /\ IF IsOk(jobs[j].result)
          THEN /\ cache' = IF CacheUsable(a)
                           THEN [cache EXCEPT ![a] = Put(cache[a], h, jobs[j].result.score)]
                           ELSE cache
               /\ metrics' = IF MetricsUsable(a)
                             THEN [metrics EXCEPT ![a] = update_metrics(@, calls[c].elapsed)]
                             ELSE metrics
          ELSE UNCHANGED <<cache, metrics>>
       /\ UNCHANGED <<config, poisoned, detector, models, now, life, poolVars>>

\* variant: on a timeout the caller dispatches the analysis once more
Timeout_Retries(c) ==
    LET j == calls[c].job
        a == AnalyzerOf(c)
        k == Len(jobs) + 1
    IN /\ calls[c].pc = "waiting"
       /\ jobs[j].st # "sent"
       /\ calls[c].elapsed >= calls[c].timeout
       /\ k <= JobLimit
       /\ jobs' = Append([jobs EXCEPT ![j].rx = FALSE, ![j].gaveUp = jobs[j].st],
                         [an |-> a, content |-> calls[c].content, tx |-> c, st |-> "queued",
                          rx |-> TRUE, gaveUp |-> "no", runs |-> 0, result |-> None,
                          load |-> None])
       /\ queue' = [queue EXCEPT ![a] = Execute(queue[a], k)]
       /\ calls' = [calls EXCEPT ![c].job = k, ![c].elapsed = 0]
       /\ UNCHANGED <<config, poisoned, detector, models, now, life, cache, metrics, sender,
                      receiverLock, workers, since>>

\* variant: on a timeout the caller takes its job back out of the queue
Timeout_Cancels(c) ==
    LET j == calls[c].job
        a == AnalyzerOf(c)
    IN /\ calls[c].pc = "waiting"
       /\ jobs[j].st # "sent"
       /\ calls[c].elapsed >= calls[c].timeout
       /\ jobs' = [jobs EXCEPT ![j].rx = FALSE]
       /\ queue' = [queue EXCEPT ![a] = SelectSeq(queue[a], LAMBDA x : x # j)]
       /\ calls' = [calls EXCEPT ![c] =
                      [IdleCall EXCEPT !.content = calls[c].content, !.job = j,
                                       !.elapsed = calls[c].elapsed,
                                       !.ret = Err("ProcessingTimeout")]]
       /\ UNCHANGED <<config, poisoned, detector, models, now, life, cache, metrics, sender, receiverLock,
                      workers, since>>

\* recv_timeout returns Err: the deadline passed with nothing in the channel
\* (Timeout), or the job dropped its sender without sending (Disconnected);
\* `Err(_)` maps both to ProcessingTimeout; rx is dropped with the stack frame
Timeout(c) ==
    LET j == calls[c].job
    IN /\ calls[c].pc = "waiting"
       /\ jobs[j].st # "sent"
       /\ calls[c].elapsed >= calls[c].timeout \/ jobs[j].st = "panicked"
       /\ jobs' = [jobs EXCEPT ![j].rx = FALSE, ![j].gaveUp = jobs[j].st]
       /\ calls' = [calls EXCEPT ![c] =
                      [IdleCall EXCEPT !.content = calls[c].content, !.job = j,
                                       !.elapsed = calls[c].elapsed,
                                       !.ret = Err("ProcessingTimeout")]]
       /\ UNCHANGED <<config, poisoned, detector, models, now, life, cache, metrics, poolVars, since>>

\* ------------------------------------------------------------------ time
\* a thread can take a step that needs no time to pass
UntimedStepEnabled ==
    \/ \E a \in AnalyzerIds : \E w \in WorkerIds :
          \/ /\ life[a].st \in {"alive", "joining"}
             /\ workers[a][w].st = "idle"
             /\ receiverLock[a] = 0
          \/ /\ workers[a][w].st = "recv"
             /\ (queue[a] # <<>> \/ ~sender[a])
          \/ /\ workers[a][w].st = "busy"
             /\ workers[a][w].left = 0
    \/ \E c \in ThreadIds :
          /\ calls[c].pc = "waiting"
          /\ \/ jobs[calls[c].job].st \in {"sent", "panicked"}
             \/ calls[c].elapsed >= calls[c].timeout
    \/ \E a \in AnalyzerIds :
          /\ life[a].st = "joining"
          /\ workers[a][life[a].joinIdx].st = "exited"
    \/ \E i \in 1..MaxBatch :
          \/ items[i] \in {"spawned", "ready"}
          \/ items[i] = "analyzing" /\ calls[ItemThread(i)].pc = "idle"
    \/ batch.pc = "collecting" /\ chan # <<>>
    \/ /\ batch.pc = "collecting"
       /\ batch.got = Len(batch.contents)
       /\ (batch.joined < Len(batch.contents) =>
              /\ items[batch.joined + 1] = "sent"
              /\ life[batch.joined + 1].st = "dropped")
    \/ batch.pc = "seq_next"
    \/ batch.pc = "seq_wait" /\ calls[BatchThread].pc = "idle"

Tick ==
    /\ ~UntimedStepEnabled
    /\ \E a \in AnalyzerIds : \E w \in WorkerIds : workers[a][w].st = "busy"
    /\ now' = Min(now + 1, MaxTime)
    /\ workers' = [a \in AnalyzerIds |-> [w \in WorkerIds |->
                     IF workers[a][w].st = "busy"
                     THEN [workers[a][w] EXCEPT !.left = @ - 1]
                     ELSE workers[a][w]]]
    /\ calls' = [c \in ThreadIds |->
                   IF calls[c].pc = "waiting"
                   THEN [calls[c] EXCEPT !.elapsed = @ + 1]
                   ELSE calls[c]]
    /\ UNCHANGED <<config, poisoned, detector, models, life, cache, metrics, sender, queue, receiverLock, jobs,
                   since>>

\* ------------------------------------------------------------ next-state
PoolStep ==
    \E a \in AnalyzerIds : \E w \in WorkerIds :
        \/ WorkerLock(a, w)
        \/ WorkerRecv(a, w)
        \/ WorkerExit(a, w)
        \/ JobDone(a, w)

SpecTexts == {"A", "C"}

CallStep ==
    \E c \in Callers :
        \/ \E content \in SpecTexts : \E timeout \in Timeouts :
              \/ CacheHit(c, content, timeout)
              \/ Dispatch(c, content, timeout)
        \/ Receive(c)
        \/ Timeout(c)

Next ==
    \/ PoolStep /\ UNCHANGED batchVars
    \/ CallStep /\ UNCHANGED batchVars
    \/ (\E e \in Registrable : RegisterModel(e[1], e[2])) /\ UNCHANGED batchVars
    \/ DropPool(SelfId) /\ UNCHANGED batchVars
    \/ JoinWorker(SelfId) /\ UNCHANGED batchVars
    \/ Tick /\ UNCHANGED batchVars

Spec == Init /\ [][Next]_vars

\* -------------------------------------------------- ThreadPool::execute
PoolJobs == MaxJobs + 2                \* closures handed to a pool directly
PoolTexts == {"C"}                     \* what these closures analyze

\* variant: execute hands the job to a worker that waits in recv
Submit_Rendezvous(content) ==
    /\ life[SelfId].st = "alive"
    /\ Len(jobs) < PoolJobs
    /\ queue[SelfId] = <<>>
    /\ \E w \in WorkerIds : workers[SelfId][w].st = "recv"
    /\ jobs' = Append(jobs, [an |-> SelfId, content |-> content, tx |-> 0, st |-> "queued",
                             rx |-> FALSE, gaveUp |-> "no", runs |-> 0, result |-> None,
                             load |-> Load(SelfId)])
    /\ queue' = [queue EXCEPT ![SelfId] = Execute(queue[SelfId], Len(jobs) + 1)]
    /\ UNCHANGED <<config, poisoned, detector, models, now, life, cache, metrics, sender, receiverLock, workers,
                   calls, since>>

\* a client of the pool calls execute with a closure that analyzes content
\* and whose result nobody waits for
Submit(content) ==
    /\ life[SelfId].st = "alive"
    /\ Len(jobs) < PoolJobs
    /\ jobs' = Append(jobs, [an |-> SelfId, content |-> content, tx |-> 0, st |-> "queued",
                             rx |-> FALSE, gaveUp |-> "no", runs |-> 0, result |-> None,
                             load |-> Load(SelfId)])
    /\ queue' = [queue EXCEPT ![SelfId] = Execute(queue[SelfId], Len(jobs) + 1)]
    /\ UNCHANGED <<config, poisoned, detector, models, now, life, cache, metrics, sender, receiverLock, workers,
                   calls, since>>

\* a pool whose jobs query one model
InitPool ==
    /\ config \in [thread_count : ThreadCounts,
                   cache_size : CacheSizes,
                   enable_parallel_processing : {TRUE},
                   timeout_ms : {ShortTimeout}]
    /\ models = <<[name |-> "m1", model |-> "toxicity"]>>
    /\ Constructed

NextPool ==
    \/ (\E content \in PoolTexts : Submit(content)) /\ UNCHANGED batchVars
    \/ PoolStep /\ UNCHANGED batchVars
    \/ DropPool(SelfId) /\ UNCHANGED batchVars
    \/ JoinWorker(SelfId) /\ UNCHANGED batchVars
    \/ Tick /\ UNCHANGED batchVars

SpecPool == InitPool /\ [][NextPool]_vars

\* ------------------------------------------------------- poisoned locks
\* a thread panics while it holds lock l, which poisons it (the registry
\* lock is poisoned by a writer only, so not while a reader holds it)
Poison(l) ==
    /\ l \notin poisoned
    /\ l = "models" => ~ReadGuardHeld
    /\ poisoned' = poisoned \cup {l}
    /\ UNCHANGED <<config, detector, models, now, life, cache, metrics, poolVars, jobs, calls,
                   since>>

InitPoison ==
    /\ config \in [thread_count : {1},
                   cache_size : CacheSizes,
                   enable_parallel_processing : {TRUE},
                   timeout_ms : {ShortTimeout}]
    /\ models = <<[name |-> "m1", model |-> "toxicity"]>>
    /\ Constructed

PoisonCall ==
    \E c \in OneCaller : \E content \in SpecTexts : \E timeout \in Timeouts :
        \/ CacheHit(c, content, timeout)
        \/ Dispatch(c, content, timeout)

PoisonWait ==
    \E c \in OneCaller : Receive(c) \/ Timeout(c)

NextPoison ==
    \/ (\E l \in Locks : Poison(l)) /\ UNCHANGED batchVars
    \/ PoisonCall /\ UNCHANGED batchVars
    \/ PoisonWait /\ UNCHANGED batchVars
    \/ PoolStep /\ UNCHANGED batchVars
    \/ Tick /\ UNCHANGED batchVars

SpecPoison == InitPoison /\ [][NextPoison]_vars

\* ------------------------------------------------------- panicking jobs
\* registries holding a model whose analyze panics on text C
PanicRegistries ==
    {<<[name |-> "m1", model |-> "panicky"]>>,
     <<[name |-> "m1", model |-> "toxicity"], [name |-> "m2", model |-> "panicky"]>>}

InitPanic ==
    /\ config \in [thread_count : {1, 2},
                   cache_size : CacheSizes,
                   enable_parallel_processing : {TRUE},
                   timeout_ms : {ShortTimeout}]
    /\ models \in PanicRegistries
    /\ Constructed

NextPanic ==
    \/ CallStep /\ UNCHANGED batchVars
    \/ PoolStep /\ UNCHANGED batchVars
    \/ Tick /\ UNCHANGED batchVars

SpecPanic == InitPanic /\ [][NextPanic]_vars

\* ------------------------------------------------- calls of the detector
\* the texts: some, one or two of the harmful, bias, illegal and
\* misinformation patterns match; the SSN and the e-mail pattern match up
\* to MaxMatches times each
PrivacyCounts ==
    {[k \in 1..PrivacyPatterns |-> IF k \in {1, 3} THEN f[k] ELSE 0] :
        f \in [{1, 3} -> 0..MaxMatches]}

DetectorTexts ==
    [harmful : {{}, {5}, {1, 5}},
     bias : {{}, {5}},
     privacy : PrivacyCounts,
     illegal : {{}, {1}, {2, 4}},
     misinformation : {{}, {4}}]

\* contexts that name one of the four fields, in any case and inside a word
FieldContexts ==
    {<<"M", "E", "D", "I", "C", "A", "L">>,
     <<"A", "n", " ", "E", "d", "u", "c", "a", "t", "i", "o", "n", "a", "l", " ", "t", "e", "x", "t">>,
     <<"a", "c", "a", "d", "e", "m", "i", "c">>,
     <<"b", "i", "o", "R", "e", "s", "e", "a", "r", "c", "h">>}

\* contexts that name none of them
OtherContexts ==
    {<<>>,
     <<"m", "e", "d", "i", "c">>,
     <<"c", "a", "s", "u", "a", "l", " ", "c", "h", "a", "t">>}

DetectorContexts == {None} \cup {Some(c) : c \in FieldContexts \cup OtherContexts}

\* a caller holding a SafetyAnalyzer calls analyze(text, context); one call
\* is followed, since analyze keeps nothing from one call to the next
Analyze(text, context) ==
    /\ detector = NoAnalysis
    /\ detector' = [text |-> text, context |-> context, result |-> analyze(text, context)]
    /\ UNCHANGED <<config, poisoned, models, now, life, cache, metrics, poolVars, jobs, calls,
                   since>>

InitDetector ==
    /\ config \in [thread_count : {1},
                   cache_size : CacheSizes,
                   enable_parallel_processing : {TRUE},
                   timeout_ms : {ShortTimeout}]
    /\ models = <<>>
    /\ Constructed

NextDetector ==
    (\E text \in DetectorTexts : \E context \in DetectorContexts : Analyze(text, context))
       /\ UNCHANGED batchVars

SpecDetector == InitDetector /\ [][NextDetector]_vars

\* ------------------------------------------- analyses on a given registry
ModelKinds == {"toxicity", "strict", "offline"}
ModelNames == {"m1", "m2"}

\* the registries of up to two models, in every iteration order
Registries ==
    {<<>>}
    \cup {<<[name |-> n, model |-> m]>> : n \in ModelNames, m \in ModelKinds}
    \cup {r \in [1..2 -> [name : ModelNames, model : ModelKinds]] :
            r[1].name # r[2].name}

InitRegistry ==
    /\ config \in [thread_count : {1},
                   cache_size : CacheSizes,
                   enable_parallel_processing : {TRUE},
                   timeout_ms : {ShortTimeout}]
    /\ models \in Registries
    /\ Constructed

RegistryCall ==
    \E c \in OneCaller : \E content \in Texts : \E timeout \in Timeouts :
        \/ CacheHit(c, content, timeout)
        \/ Dispatch(c, content, timeout)

RegistryWait ==
    \E c \in OneCaller : Receive(c) \/ Timeout(c)

NextRegistry ==
    \/ RegistryCall /\ UNCHANGED batchVars
    \/ RegistryWait /\ UNCHANGED batchVars
    \/ PoolStep /\ UNCHANGED batchVars
    \/ DropPool(SelfId) /\ UNCHANGED batchVars
    \/ JoinWorker(SelfId) /\ UNCHANGED batchVars
    \/ Tick /\ UNCHANGED batchVars

SpecRegistry == InitRegistry /\ [][NextRegistry]_vars

\* registries whose model names hold an underscore or not
NameRegistries ==
    {<<[name |-> "m", model |-> "nested"]>>,
     <<[name |-> "m", model |-> "nested"], [name |-> "m_x", model |-> "toxicity"]>>,
     <<[name |-> "m_x", model |-> "toxicity"], [name |-> "m", model |-> "nested"]>>,
     <<[name |-> "m", model |-> "toxicity"], [name |-> "m_x", model |-> "nested"]>>}

InitNames ==
    /\ config \in [thread_count : {1},
                   cache_size : CacheSizes,
                   enable_parallel_processing : {TRUE},
                   timeout_ms : {ShortTimeout}]
    /\ models \in NameRegistries
    /\ Constructed

SpecNames == InitNames /\ [][NextRegistry]_vars

\* ------------------------------------------------------- batch_analyze

\* registries a batch runs against: (name, model) in iteration order
BatchRegistries ==
    {<<[name |-> "m1", model |-> "toxicity"]>>,
     <<[name |-> "m2", model |-> "strict"], [name |-> "m1", model |-> "toxicity"]>>}

\* every item of a parallel batch gets a pool of its own that runs one job
BatchThreadCounts == {1}

BatchInputs == UNION {[1..n -> Texts] : n \in 0..MaxBatch}

InitBatch ==
    /\ config \in [thread_count : BatchThreadCounts,
                   cache_size : CacheSizes,
                   enable_parallel_processing : BOOLEAN,
                   timeout_ms : Timeouts]
    /\ models \in BatchRegistries
    /\ now = 0
    /\ life = [a \in AnalyzerIds |->
                 [st |-> IF a = SelfId THEN "alive" ELSE "unborn", joinIdx |-> 0,
                  pending |-> 0]]
    /\ cache = [a \in AnalyzerIds |-> EmptyMap]
    /\ metrics = [a \in AnalyzerIds |-> 0]
    /\ sender = [a \in AnalyzerIds |-> a = SelfId]
    /\ queue = [a \in AnalyzerIds |-> <<>>]
    /\ receiverLock = [a \in AnalyzerIds |-> 0]
    /\ workers = [a \in AnalyzerIds |-> [w \in WorkerIds |-> IdleWorker]]
    /\ jobs = <<>>
    /\ calls = [c \in ThreadIds |-> IdleCall]
    /\ since = [c \in ThreadIds |-> Quiet]
    /\ batch = IdleBatch
    /\ items = [i \in 1..MaxBatch |-> "none"]
    /\ chan = <<>>
    /\ poisoned = {}
    /\ detector = NoAnalysis

\* analyze_content: analyze_with_timeout with the configured timeout
AnalyzeContent(c, content) ==
    \/ CacheHit(c, content, config.timeout_ms)
    \/ Dispatch(c, content, config.timeout_ms)

\* batch_analyze, parallel mode: spawn one thread per item, drop(tx)
ParStart(contents) ==
    /\ config.enable_parallel_processing
    /\ batch.pc = "idle"
    /\ batch' = [IdleBatch EXCEPT !.pc = "collecting", !.contents = contents,
                                  !.results = [i \in 1..Len(contents) |-> None]]
    /\ items' = [i \in 1..MaxBatch |-> IF i <= Len(contents) THEN "spawned" ELSE "none"]
    /\ UNCHANGED <<config, poisoned, detector, models, now, life, cache, metrics, poolVars, jobs, calls, since,
                   chan>>

\* the threads of the items up to i have dispatched their jobs; the threads are
\* spawned in item order and the jobs are numbered in that order
Started(i) == \A k \in 1..i : items[k] \notin {"spawned", "ready"}

\* item thread: AdvancedSafetyAnalyzer::new(analyzer_config) with the
\* caller's registry
ItemNew(i) ==
    /\ items[i] = "spawned"
    /\ Started(i - 1)
    /\ items' = [items EXCEPT ![i] = "ready"]
    /\ life' = [life EXCEPT ![i].st = "alive"]
    /\ sender' = [sender EXCEPT ![i] = TRUE]
    /\ UNCHANGED <<config, poisoned, detector, models, now, cache, metrics, queue, receiverLock, workers, jobs,
                   calls, since, batch, chan>>

\* item thread: dummy_analyzer.analyze_content(&content_owned)
ItemCall(i) ==
    /\ items[i] = "ready"
    /\ items' = [items EXCEPT ![i] = "analyzing"]
    /\ AnalyzeContent(ItemThread(i), batch.contents[i])
    /\ UNCHANGED <<batch, chan>>

Lowest(S) == CHOOSE i \in S : \A k \in S : i <= k

\* what the fan-in channel holds after a send
Sent(ch, index, result) == Append(ch, <<index, result>>)

\* item thread: tx_clone.send((index, result)); the closure ends there and
\* dummy_analyzer is dropped, which starts the drop of its pool
ItemSend(i) ==
    /\ items[i] = "analyzing"
    /\ calls[ItemThread(i)].pc = "idle"
    /\ items' = [items EXCEPT ![i] = "sent"]
    /\ chan' = Sent(chan, i, calls[ItemThread(i)].ret)
    /\ batch' = [batch EXCEPT !.firstSent =
                    IF IsErr(calls[ItemThread(i)].ret) /\ batch.firstSent = None
                    THEN calls[ItemThread(i)].ret ELSE @]
    /\ DropPool(i)

\* the item thread has terminated: the drop of its pool has returned
Terminated(i) == items[i] = "sent" /\ life[i].st = "dropped"

\* variant: the result is put into the first free slot, in arrival order
Stored_InArrivalOrder(results, index, result) ==
    [results EXCEPT ![Lowest({i \in 1..Len(results) : results[i] = None})] = result]

\* results[index] = Some(result)
Stored(results, index, result) == [results EXCEPT ![index] = result]

\* batch thread: one iteration of the loop over rx.recv()
ParRecv ==
    /\ batch.pc = "collecting"
    /\ batch.got < Len(batch.contents)
    /\ chan # <<>>
    /\ chan' = Tail(chan)
    /\ batch' = [batch EXCEPT !.results = Stored(batch.results, Head(chan)[1], Head(chan)[2]),
                              !.got = @ + 1]
    /\ UNCHANGED <<config, poisoned, detector, models, now, life, cache, metrics, poolVars, jobs, calls, since,
                   items>>

\* variant: the item threads are detached, join returns at once
ParJoin_Detached ==
    /\ batch.pc = "collecting"
    /\ batch.got = Len(batch.contents)
    /\ batch.joined < Len(batch.contents)
    /\ batch' = [batch EXCEPT !.joined = @ + 1]
    /\ UNCHANGED <<config, poisoned, detector, models, now, life, cache, metrics, poolVars, jobs, calls, since,
                   items, chan>>

\* batch thread: handle.join() of the next item thread
ParJoin ==
    /\ batch.pc = "collecting"
    /\ batch.got = Len(batch.contents)
    /\ batch.joined < Len(batch.contents)
    /\ Terminated(batch.joined + 1)
    /\ batch' = [batch EXCEPT !.joined = @ + 1]
    /\ UNCHANGED <<config, poisoned, detector, models, now, life, cache, metrics, poolVars, jobs, calls, since,
                   items, chan>>

\* variant: the failed items are left out of the returned vector
Collected_SkipsFailures(results) ==
    LET ok == {i \in 1..Len(results) : IsOk(results[i])}
        Nth[n \in 0..Len(results)] ==
            IF n = 0 THEN 0 ELSE Lowest({i \in ok : i > Nth[n - 1]})
    IN Ok([n \in 1..Cardinality(ok) |-> results[Nth[n]].score])

\* variant: the error of the last failing item is returned
Collected_LastError(results) ==
    LET failed == {i \in 1..Len(results) : IsErr(results[i])}
    IN IF failed # {}
       THEN results[CHOOSE i \in failed : \A k \in failed : k <= i]
       ELSE Ok([i \in 1..Len(results) |-> results[i].score])

\* results.into_iter().collect::<Option<Result<Vec<_>, _>>>()
\*     .ok_or(ConcurrencyError)?
Collected(results) ==
    LET missing == {i \in 1..Len(results) : results[i] = None}
        failed == {i \in 1..Len(results) : IsErr(results[i])}
    IN IF missing # {} /\ (failed = {} \/ Lowest(missing) < Lowest(failed))
       THEN Err("ConcurrencyError")
       ELSE IF failed # {}
            THEN results[Lowest(failed)]
            ELSE Ok([i \in 1..Len(results) |-> results[i].score])

\* batch thread: every handle is joined, the results are collected
ParCollect ==
    /\ batch.pc = "collecting"
    /\ batch.got = Len(batch.contents)
    /\ batch.joined = Len(batch.contents)
    /\ batch' = [batch EXCEPT !.pc = "done", !.ret = Collected(batch.results)]
    /\ UNCHANGED <<config, poisoned, detector, models, now, life, cache, metrics, poolVars, jobs, calls, since,
                   items, chan>>

\* batch_analyze, sequential mode: the iterator chain is set up
SeqStart(contents) ==
    /\ ~config.enable_parallel_processing
    /\ batch.pc = "idle"
    /\ batch' = [IdleBatch EXCEPT !.pc = "seq_next", !.contents = contents, !.idx = 1,
                                  !.results = [i \in 1..Len(contents) |-> None]]
    /\ UNCHANGED <<config, poisoned, detector, models, now, life, cache, metrics, poolVars, jobs, calls, since,
                   items, chan>>

\* sequential mode: the map closure calls self.analyze_content(content)
SeqCall ==
    /\ batch.pc = "seq_next"
    /\ batch.idx <= Len(batch.contents)
    /\ batch' = [batch EXCEPT !.pc = "seq_wait"]
    /\ AnalyzeContent(BatchThread, batch.contents[batch.idx])
    /\ UNCHANGED <<items, chan>>

\* variant: collect() goes on after an Err and returns it at the end
SeqTake_ContinuesAfterError ==
    /\ batch.pc = "seq_wait"
    /\ calls[BatchThread].pc = "idle"
    /\ LET r == calls[BatchThread].ret
           results == Stored(batch.results, batch.idx, r)
           failed == {i \in 1..Len(results) : IsErr(results[i])}
       IN batch' = IF batch.idx = Len(batch.contents)
                   THEN [batch EXCEPT !.pc = "done", !.results = results,
                                      !.ret = IF failed # {}
                                              THEN results[Lowest(failed)]
                                              ELSE Ok([i \in 1..Len(results) |->
                                                          results[i].score])]
                   ELSE [batch EXCEPT !.pc = "seq_next", !.results = results,
                                      !.idx = @ + 1]
    /\ UNCHANGED <<config, poisoned, detector, models, now, life, cache, metrics, poolVars, jobs, calls, since,
                   items, chan>>

\* sequential mode: collect() takes the item's result; the first Err ends
\* the iteration, the end of the input ends it with the scores
SeqTake ==
    /\ batch.pc = "seq_wait"
    /\ calls[BatchThread].pc = "idle"
    /\ LET r == calls[BatchThread].ret
           results == Stored(batch.results, batch.idx, r)
       IN batch' = IF IsErr(r)
                   THEN [batch EXCEPT !.pc = "done", !.results = results, !.ret = r]
                   ELSE IF batch.idx = Len(batch.contents)
                        THEN [batch EXCEPT !.pc = "done", !.results = results,
                                           !.ret = Ok([i \in 1..Len(results) |->
                                                          results[i].score])]
                        ELSE [batch EXCEPT !.pc = "seq_next", !.results = results,
                                           !.idx = @ + 1]
    /\ UNCHANGED <<config, poisoned, detector, models, now, life, cache, metrics, poolVars, jobs, calls, since,
                   items, chan>>

\* sequential mode on an empty input
SeqEmpty ==
    /\ batch.pc = "seq_next"
    /\ batch.contents = <<>>
    /\ batch' = [batch EXCEPT !.pc = "done", !.ret = Ok(<<>>)]
    /\ UNCHANGED <<config, poisoned, detector, models, now, life, cache, metrics, poolVars, jobs, calls, since,
                   items, chan>>

BatchWait ==
    \E c \in ThreadIds : Receive(c) \/ Timeout(c)

NextBatch ==
    \/ \E contents \in BatchInputs : ParStart(contents)
    \/ \E i \in 1..MaxBatch : ItemNew(i)
    \/ \E i \in 1..MaxBatch : ItemCall(i)
    \/ \E i \in 1..MaxBatch : ItemSend(i)
    \/ ParRecv
    \/ ParJoin
    \/ ParCollect
    \/ \E contents \in BatchInputs : SeqStart(contents)
    \/ SeqCall
    \/ SeqTake
    \/ SeqEmpty
    \/ BatchWait /\ UNCHANGED batchVars
    \/ PoolStep /\ UNCHANGED batchVars
    \/ (\E i \in 1..MaxBatch : JoinWorker(i)) /\ UNCHANGED batchVars
    \/ Tick /\ UNCHANGED batchVars

SpecBatch == InitBatch /\ [][NextBatch]_vars

\* ------------------------------------ texts of equal fingerprint
CollidingTexts == {"A", "D"}

InitCollide ==
    /\ config \in [thread_count : {1},
                   cache_size : CacheSizes,
                   enable_parallel_processing : {TRUE},
                   timeout_ms : {ShortTimeout}]
    /\ models \in BatchRegistries
    /\ Constructed

CollideCall ==
    \E c \in Callers : \E content \in CollidingTexts : \E timeout \in Timeouts :
        \/ CacheHit(c, content, timeout)
        \/ Dispatch(c, content, timeout)

CollideWait ==
    \E c \in Callers : Receive(c) \/ Timeout(c)

NextCollide ==
    \/ CollideCall /\ UNCHANGED batchVars
    \/ CollideWait /\ UNCHANGED batchVars
    \/ PoolStep /\ UNCHANGED batchVars
    \/ Tick /\ UNCHANGED batchVars

SpecCollide == InitCollide /\ [][NextCollide]_vars

\* ----------------------------------------- registries of failing models
ErrorKinds == {"toxicity", "strict", "exhausted", "offline"}

\* two models under different names, in either iteration order
ErrorRegistries ==
    {r \in [1..2 -> [name : ModelNames, model : ErrorKinds]] : r[1].name # r[2].name}

InitErrors ==
    /\ config \in [thread_count : {1},
                   cache_size : CacheSizes,
                   enable_parallel_processing : {TRUE},
                   timeout_ms : {ShortTimeout}]
    /\ models \in ErrorRegistries
    /\ Constructed

SpecErrors == InitErrors /\ [][NextRegistry]_vars

\* ------------------------------- models registered between analyses
\* what is registered later: a model under a new name, and one that
\* replaces the model registered first
LateModels == {<<"m2", "strict">>, <<"m1", "strict">>}

StaleTexts == {"A", "B"}

InitStale ==
    /\ config \in [thread_count : {1},
                   cache_size : CacheSizes,
                   enable_parallel_processing : {TRUE},
                   timeout_ms : {ShortTimeout}]
    /\ models = <<[name |-> "m1", model |-> "toxicity"]>>
    /\ Constructed

StaleCall ==
    \E c \in OneCaller : \E content \in StaleTexts : \E timeout \in Timeouts :
        \/ CacheHit(c, content, timeout)
        \/ Dispatch(c, content, timeout)

NextStale ==
    \/ StaleCall /\ UNCHANGED batchVars
    \/ RegistryWait /\ UNCHANGED batchVars
    \/ (\E e \in LateModels : RegisterModel(e[1], e[2])) /\ UNCHANGED batchVars
    \/ PoolStep /\ UNCHANGED batchVars
    \/ Tick /\ UNCHANGED batchVars

SpecStale == InitStale /\ [][NextStale]_vars

\* ------------------------------------- a batch on an analyzer in use
\* another thread that holds the caller's analyzer
OtherCaller == 2

\* batches of one item
WarmInputs == {<<t>> : t \in Texts}

\* the other thread calls analyze_content once, before the batch or while
\* it runs
WarmCall(content) ==
    /\ jobs = <<>>
    /\ AnalyzeContent(OtherCaller, content)

NextWarm ==
    \/ (\E content \in Texts : WarmCall(content)) /\ UNCHANGED batchVars
    \/ \E contents \in WarmInputs : ParStart(contents)
    \/ \E i \in 1..MaxBatch : ItemNew(i)
    \/ \E i \in 1..MaxBatch : ItemCall(i)
    \/ \E i \in 1..MaxBatch : ItemSend(i)
    \/ ParRecv
    \/ ParJoin
    \/ ParCollect
    \/ \E contents \in WarmInputs : SeqStart(contents)
    \/ SeqCall
    \/ SeqTake
    \/ BatchWait /\ UNCHANGED batchVars
    \/ PoolStep /\ UNCHANGED batchVars
    \/ (\E i \in 1..MaxBatch : JoinWorker(i)) /\ UNCHANGED batchVars
    \/ Tick /\ UNCHANGED batchVars

SpecWarm == InitBatch /\ [][NextWarm]_vars

\* the threads run: a worker that can take a step takes one, time passes,
\* a caller whose recv_timeout can return does return
LiveSpec ==
    /\ Spec
    /\ WF_vars(PoolStep /\ UNCHANGED batchVars)
    /\ WF_vars(Tick /\ UNCHANGED batchVars)
    /\ WF_vars((\E c \in Callers : Receive(c) \/ Timeout(c)) /\ UNCHANGED batchVars)
    /\ WF_vars(JoinWorker(SelfId) /\ UNCHANGED batchVars)

\* ================================================================ claims
JobIds == 1..Len(jobs)

\* thread c enters analyze_with_timeout in this step
CallStarts(c) == calls[c].pc = "idle" /\ calls'[c] # calls[c]

\* thread c leaves recv_timeout in this step
WaitEnds(c) == calls[c].pc = "waiting" /\ calls'[c].pc = "idle"

\* the caller of job j gave up waiting for it
Orphan(j) == ~jobs[j].rx

\* C1: a call whose fingerprint is in the cache returns the cached score at
\* once, submits no job and leaves cache, metrics and pool as they were.
C1_CacheHitFrame ==
    [][\A c \in Callers :
          LET h == calculate_hash(calls'[c].content)
          IN (CallStarts(c) /\ h \in DOMAIN cache[SelfId]) =>
                /\ calls'[c].pc = "idle"
                /\ calls'[c].job = 0
                /\ calls'[c].ret = Ok(cache[SelfId][h])
                /\ UNCHANGED <<cache, metrics, jobs, poolVars>>]_vars

\* a call was served from the cache while the latency metric was non-zero
C1_Witness ==
    \E c \in Callers :
        /\ calls[c].pc = "idle"
        /\ IsOk(calls[c].ret)
        /\ calls[c].job = 0
        /\ metrics[SelfId] > 0

\* the latest call of c1 was on text t and succeeded, and no model was
\* registered since
FirstSucceeded(c1, t) ==
    /\ calls[c1].pc = "idle"
    /\ calls[c1].content = t
    /\ IsOk(calls[c1].ret)
    /\ ~since[c1].reg

\* C2 as stated: after a successful call on a text, with no registration in
\* between, the next call on that text returns the same score and submits
\* no job.
C2_Original ==
    [][\A c1, c2 \in Callers :
          (CallStarts(c2) /\ FirstSucceeded(c1, calls'[c2].content)) =>
              (calls'[c2].ret = calls[c1].ret /\ jobs' = jobs)]_vars

\* C2 amended: the same, provided no other call on that text has written
\* the cache in between.
C2_CacheIdempotence ==
    [][\A c1, c2 \in Callers :
          (/\ CallStarts(c2)
           /\ FirstSucceeded(c1, calls'[c2].content)
           /\ ~since[c1].write) =>
              (calls'[c2].ret = calls[c1].ret /\ jobs' = jobs)]_vars

\* a first call computed a score, a second call on the same text was served
\* from the cache with the same score
C2_Witness ==
    \E c1, c2 \in Callers :
        /\ c1 # c2
        /\ calls[c1].pc = "idle" /\ calls[c2].pc = "idle"
        /\ calls[c1].content = calls[c2].content
        /\ IsOk(calls[c1].ret) /\ calls[c1].job # 0
        /\ calls[c2].job = 0 /\ calls[c2].ret = calls[c1].ret
        /\ ~since[c1].reg /\ ~since[c1].write

\* C3: a wait that ends with nothing delivered ends at the deadline with
\* ProcessingTimeout and leaves the job where it is; an orphaned job stays
\* queued until a worker dequeues it, then runs, then is discarded; it is
\* never delivered or received; and it does reach its end.
C3_TimeoutDoesNotCancel ==
    /\ [][/\ \A c \in Callers :
                LET j == calls[c].job
                IN (WaitEnds(c) /\ jobs[j].st # "sent") =>
                      /\ calls'[c].ret = Err("ProcessingTimeout")
                      /\ calls[c].elapsed >= calls[c].timeout
                      /\ jobs'[j].st = jobs[j].st
                      /\ UNCHANGED poolVars
          /\ \A j \in JobIds :
                Orphan(j) =>
                   /\ ~jobs'[j].rx
                   /\ jobs[j].st \in {"queued", "running", "discarded"}
                   /\ jobs[j].st = "queued" => jobs'[j].st \in {"queued", "running"}
                   /\ jobs[j].st = "running" => jobs'[j].st \in {"running", "discarded"}
                   /\ jobs[j].st = "discarded" => jobs'[j].st = "discarded"]_vars
    /\ \A j \in 1..JobLimit :
          (j \in JobIds /\ Orphan(j)) ~> (j \in JobIds /\ jobs[j].st = "discarded")

\* an orphaned job that was still queued when its caller gave up has run
C3_Witness ==
    \E j \in JobIds :
        /\ Orphan(j)
        /\ jobs[j].st = "discarded"
        /\ jobs[j].runs = 1
        /\ jobs[j].gaveUp = "queued"

\* a caller has timed out before
AfterTimeout == \E j \in JobIds : Orphan(j)

\* C4: after a timeout, a call with a timeout longer than all pending work
\* never ends in ProcessingTimeout and does return a score.
C4_NoDeadlockAfterTimeout ==
    /\ [][\A c \in Callers :
             (WaitEnds(c) /\ calls[c].timeout = Generous) =>
                 calls'[c].ret # Err("ProcessingTimeout")]_vars
    /\ \A c \in Callers :
          (calls[c].pc = "waiting" /\ calls[c].timeout = Generous /\ AfterTimeout)
             ~> (calls[c].pc = "idle" /\ IsOk(calls[c].ret))

\* pool of one worker: a call dispatched after a timeout waited behind the
\* orphaned job and then returned a score
C4_Witness ==
    \E c \in Callers : \E j \in JobIds :
        /\ config.thread_count = 1
        /\ Orphan(j) /\ j < calls[c].job
        /\ calls[c].pc = "idle"
        /\ IsOk(calls[c].ret)
        /\ calls[c].elapsed > JobDuration(calls[c].content, models)

\* C5 as stated: once an orphaned job has completed with a score, the cache
\* holds an entry for its text.
C5_Original ==
    \A j \in JobIds :
        (Orphan(j) /\ jobs[j].st = "discarded" /\ IsOk(jobs[j].result)) =>
            calculate_hash(jobs[j].content) \in DOMAIN cache[jobs[j].an]

\* C5 amended: the result of an orphaned job is discarded; every cache entry
\* is the score of a job whose caller received it within its timeout.
C5_OrphanResultDiscarded ==
    /\ \A j \in JobIds : Orphan(j) => jobs[j].st \in {"queued", "running", "discarded"}
    /\ \A a \in AnalyzerIds : \A h \in DOMAIN cache[a] :
          \E j \in JobIds :
              /\ jobs[j].an = a
              /\ jobs[j].st = "received"
              /\ ~Orphan(j)
              /\ calculate_hash(jobs[j].content) = h
              /\ IsOk(jobs[j].result)

\* an orphaned job has completed with a score and its text is not cached
C5_Witness ==
    \E j \in JobIds :
        /\ Orphan(j)
        /\ jobs[j].st = "discarded"
        /\ IsOk(jobs[j].result)
        /\ calculate_hash(jobs[j].content) \notin DOMAIN cache[jobs[j].an]

TimesQueued(a, j) == Cardinality({i \in 1..Len(queue[a]) : queue[a][i] = j})

RunningOn(a, j) == {w \in WorkerIds : workers[a][w].st = "busy" /\ workers[a][w].job = j}

\* C9: a submitted job is in the queue once until one worker takes it, is
\* then run by that worker alone, and is never run again; no job is still
\* queued when the pool has been dropped.
C9_ExactlyOnce ==
    \A j \in JobIds :
        LET a == jobs[j].an
        IN /\ jobs[j].runs <= 1
           /\ TimesQueued(a, j) = (IF jobs[j].st = "queued" THEN 1 ELSE 0)
           /\ Cardinality(RunningOn(a, j)) = (IF jobs[j].st = "running" THEN 1 ELSE 0)
           /\ jobs[j].runs = (IF jobs[j].st = "queued" THEN 0 ELSE 1)
           /\ jobs[j].st = "queued" => life[a].st # "dropped"
           /\ life[a].st = "dropped" => jobs[j].st \in {"received", "discarded"}

\* two workers, both busy with different jobs at the same time
C9_Witness ==
    /\ config.thread_count = 2
    /\ workers[SelfId][1].st = "busy"
    /\ workers[SelfId][2].st = "busy"
    /\ workers[SelfId][1].job # workers[SelfId][2].job

\* C10: a worker exits only on a closed and empty queue; a dropped pool has
\* a closed queue; drop has returned only if every worker has exited, and
\* then every job submitted to the pool has been run.
C10_Shutdown ==
    /\ [][\A a \in AnalyzerIds : \A w \in WorkerIds :
             (workers[a][w].st # "exited" /\ workers'[a][w].st = "exited") =>
                 (~sender[a] /\ queue[a] = <<>> /\ workers[a][w].st = "recv")]_vars
    /\ [](\A a \in AnalyzerIds :
             /\ life[a].st \in {"joining", "dropped"} => ~sender[a]
             /\ life[a].st = "alive" =>
                   (sender[a] /\ \A w \in WorkerIds : workers[a][w].st # "exited")
             /\ life[a].st = "joining" =>
                   \A w \in WorkerIds : w < life[a].joinIdx => workers[a][w].st = "exited"
             /\ life[a].st = "dropped" =>
                   /\ \A w \in WorkerIds : workers[a][w].st = "exited"
                   /\ queue[a] = <<>>
                   /\ \A j \in JobIds : jobs[j].an = a => jobs[j].runs = 1)

\* a pool was dropped with a job still queued, and drop has returned
C10_Witness ==
    /\ life[SelfId].st = "dropped"
    /\ life[SelfId].pending >= 1

\* ------------------------------------------------------- batch claims
BatchDone == batch.pc = "done"

Parallel == config.enable_parallel_processing

Items == 1..Len(batch.contents)

\* what analyze_content returned for item i (None: it was not called)
ItemResult(i) ==
    IF Parallel THEN calls[ItemThread(i)].ret ELSE batch.results[i]

Failing == {i \in Items : IsErr(ItemResult(i))}

\* C6: a successful parallel batch returns as many scores as there are
\* inputs, and element i is the score that the job of item i computed for
\* the text of item i, whatever the order in which the items completed.
C6_BatchOrderPreserved ==
    (BatchDone /\ Parallel /\ IsOk(batch.ret)) =>
        /\ Len(batch.ret.score) = Len(batch.contents)
        /\ \A i \in Items :
              LET s == batch.ret.score[i]
              IN /\ Ok(s) = perform_analysis(batch.contents[i], models, s.timestamp)
                 /\ \E j \in JobIds :
                       /\ jobs[j].an = i
                       /\ jobs[j].content = batch.contents[i]
                       /\ jobs[j].result = Ok(s)

\* a successful parallel batch whose second item completed before its
\* first one, with a different score
C6_Witness ==
    /\ BatchDone /\ Parallel /\ IsOk(batch.ret)
    /\ Len(batch.contents) >= 2
    /\ batch.ret.score[2].timestamp < batch.ret.score[1].timestamp
    /\ batch.ret.score[2].overall_score # batch.ret.score[1].overall_score

\* C7: in either mode a finished batch returns scores only if every item
\* succeeded, then one per item; if an item failed it returns an error.
C7_NoPartialSuccess ==
    BatchDone =>
        /\ batch.ret # None
        /\ IsOk(batch.ret) =>
              /\ Len(batch.ret.score) = Len(batch.contents)
              /\ \A i \in Items : ItemResult(i) = Ok(batch.ret.score[i])
        /\ Failing # {} => IsErr(batch.ret)

\* a finished parallel batch of which one item succeeded and a later one failed
C7_Witness ==
    /\ BatchDone /\ Parallel
    /\ \E i, k \in Items : i < k /\ IsOk(ItemResult(i)) /\ IsErr(ItemResult(k))

\* C8 as stated: a failed batch returns, in sequential mode, the error of
\* the lowest-index failing item and, in parallel mode, the error of the
\* item whose failure was sent first.
C8_Original ==
    (BatchDone /\ IsErr(batch.ret)) =>
        /\ Failing # {}
        /\ IF Parallel
           THEN batch.ret = batch.firstSent
           ELSE \E i \in Failing : batch.ret = ItemResult(i) /\ \A k \in Failing : i <= k

\* C8: a failed batch returns, in sequential and in parallel mode alike,
\* the error of the lowest-index failing item.
C8_LowestIndexError ==
    (BatchDone /\ IsErr(batch.ret)) =>
        /\ Failing # {}
        /\ \E i \in Failing : batch.ret = ItemResult(i) /\ \A k \in Failing : i <= k

\* a failed parallel batch whose first failure came from an item that is
\* not the lowest-index failing one, with a different error
C8_Witness ==
    /\ BatchDone /\ Parallel /\ IsErr(batch.ret)
    /\ IsErr(batch.firstSent)
    /\ batch.firstSent # batch.ret

\* ------------------------------------------------------- pool claims
\* C11: execute can be called in every state of a live pool, whatever its
\* workers do and however many jobs are queued; the call appends the job to
\* the queue and returns: the job is merely queued, no worker and no other
\* job has changed.
C11_ExecuteFireAndForget ==
    /\ [](life[SelfId].st = "alive" /\ Len(jobs) < PoolJobs =>
             \A content \in PoolTexts : ENABLED Submit(content))
    /\ [][Len(jobs') = Len(jobs) + 1 =>
             LET j == Len(jobs')
             IN /\ queue'[SelfId] = Append(queue[SelfId], j)
                /\ jobs'[j].st = "queued" /\ jobs'[j].runs = 0
                /\ \A k \in JobIds : jobs'[k] = jobs[k]
                /\ workers' = workers /\ receiverLock' = receiverLock
                /\ now' = now]_vars

\* execute was called while both workers of a pool of two were busy and a
\* job was already queued
C11_Witness ==
    /\ config.thread_count = 2
    /\ \E j \in JobIds : jobs[j].load.busy = 2 /\ jobs[j].load.queued >= 1

\* --------------------------------------------------- registry claims
\* C12: while the registry is empty, a call that misses the cache and gets
\* its job's result returns ModelLoadError (it returns ProcessingTimeout
\* only if the timeout has run out) and writes nothing to the cache, which
\* is empty.
C12_EmptyRegistry ==
    /\ [][\A c \in Callers :
             (WaitEnds(c) /\ models = <<>>) =>
                /\ \/ calls'[c].ret = Err("ModelLoadError")
                   \/ /\ calls'[c].ret = Err("ProcessingTimeout")
                      /\ calls[c].elapsed >= calls[c].timeout
                /\ cache' = cache]_vars
    /\ [](models = <<>> =>
             /\ cache[SelfId] = EmptyMap
             /\ \A c \in Callers : ~IsOk(calls[c].ret))

\* a call on the empty registry has returned ModelLoadError
C12_Witness ==
    /\ models = <<>>
    /\ \E c \in Callers :
          /\ calls[c].pc = "idle"
          /\ calls[c].job # 0
          /\ jobs[calls[c].job].st = "received"
          /\ calls[c].ret = Err("ModelLoadError")

\* a call of c has returned what its job computed
Delivered(c) ==
    /\ calls[c].pc = "idle"
    /\ calls[c].job # 0
    /\ jobs[calls[c].job].st = "received"

NoneReady == \A i \in 1..Len(models) : ~is_ready(models[i].model)

\* C13 as stated: an analysis fails with ModelLoadError whenever no
\* registered model is ready, be the registry empty or not.
C13_NoReadyModel ==
    \A c \in OneCaller :
        (Delivered(c) /\ NoneReady) => calls[c].ret = Err("ModelLoadError")

\* an analysis on a non-empty registry without a ready model has returned
C13_Witness ==
    \E c \in OneCaller : Delivered(c) /\ NoneReady /\ models # <<>>

\* the registry without the models that are not ready
RECURSIVE ReadyOnly(_)
ReadyOnly(reg) ==
    IF reg = <<>> THEN <<>>
    ELSE IF is_ready(Head(reg).model)
         THEN <<Head(reg)>> \o ReadyOnly(Tail(reg))
         ELSE ReadyOnly(Tail(reg))

\* the namespaced category keys that the ready models of the registry produce
ReadyKeys(content) ==
    UNION {{CategoryKey(models[i].name, k) :
              k \in DOMAIN ModelAnalyze(models[i].model, content).score.categories} :
           i \in {n \in 1..Len(models) :
                     /\ is_ready(models[n].model)
                     /\ IsOk(ModelAnalyze(models[n].model, content))}}

\* C14: a model that is not ready is skipped: a job takes as long and
\* computes what it would on the registry without the models that are not
\* ready (if a ready one remains), and every category of a computed score
\* comes from a ready model.
C14_NotReadySkipped ==
    \A j \in JobIds :
        /\ jobs[j].st = "running" =>
              \E w \in WorkerIds :
                  /\ workers[SelfId][w].job = j
                  /\ workers[SelfId][w].left <= JobDuration(jobs[j].content, ReadyOnly(models))
        /\ (jobs[j].result # None /\ ReadyOnly(models) # <<>>) =>
              jobs[j].result = perform_analysis(jobs[j].content, ReadyOnly(models),
                                                IF IsOk(jobs[j].result)
                                                THEN jobs[j].result.score.timestamp ELSE 0)
        /\ IsOk(jobs[j].result) =>
              /\ DOMAIN jobs[j].result.score.categories = ReadyKeys(jobs[j].content)
              /\ jobs[j].result.score.processing_time_ms =
                    JobDuration(jobs[j].content, ReadyOnly(models))

\* a job has computed a score on a registry of a ready model and one that
\* is not ready
C14_Witness ==
    /\ Len(models) = 2
    /\ ~is_ready(models[1].model)
    /\ is_ready(models[2].model)
    /\ \E j \in JobIds : IsOk(jobs[j].result)

\* ------------------------------------------------------- lock claims
\* C15 as stated: a call of analyze_with_timeout that meets a poisoned lock
\* returns ConcurrencyError: at its cache check, at the registry read of
\* its job, and at the cache insert and the metrics update after a score
\* was received.
C15_PoisonedLockFails ==
    [][\A c \in OneCaller :
          /\ (CallStarts(c) /\ "cache" \in poisoned) =>
                (calls'[c].pc = "idle" /\ calls'[c].ret = Err("ConcurrencyError"))
          /\ (WaitEnds(c) /\ jobs[calls[c].job].st = "sent" /\ "models" \in poisoned
                 /\ jobs[calls[c].job].result = Err("ConcurrencyError")) =>
                calls'[c].ret = Err("ConcurrencyError")
          /\ (WaitEnds(c) /\ jobs[calls[c].job].st = "sent"
                 /\ IsOk(jobs[calls[c].job].result)
                 /\ poisoned \cap {"cache", "metrics"} # {}) =>
                calls'[c].ret = Err("ConcurrencyError")]_vars

\* a call returned a score although the cache lock was poisoned, and the
\* score is not in the cache
C15_Witness ==
    \E c \in OneCaller :
        /\ Delivered(c)
        /\ IsOk(calls[c].ret)
        /\ "cache" \in poisoned
        /\ calculate_hash(calls[c].content) \notin DOMAIN cache[SelfId]

\* ------------------------------------------------------ timeout claims
\* C16 as stated: a call returns ProcessingTimeout only when its timeout
\* has elapsed while it waited for its job, also when the job ended
\* without sending a result.
C16_TimeoutOnlyAfterDeadline ==
    [][\A c \in Callers :
          (WaitEnds(c) /\ calls'[c].ret = Err("ProcessingTimeout")) =>
              calls[c].elapsed >= calls[c].timeout]_vars

\* a call got ProcessingTimeout for a job that panicked; it had waited
\* longer than the short timeout, so its timeout was the generous one, which
\* had not elapsed
C16_Witness ==
    \E c \in Callers :
        /\ calls[c].pc = "idle"
        /\ calls[c].ret = Err("ProcessingTimeout")
        /\ calls[c].job \in JobIds
        /\ jobs[calls[c].job].st = "panicked"
        /\ jobs[calls[c].job].gaveUp = "panicked"
        /\ calls[c].elapsed > ShortTimeout
        /\ calls[c].elapsed < Generous

\* -------------------------------------------------- write-through claims
\* C17: when a call that waited for its job receives a score, the step
\* that returns it also maps the text's fingerprint to exactly that score
\* in the cache and folds the call's latency into the running average
\* once; the average changes in no other step.
C17_WriteThroughOnSuccess ==
    [][/\ \A c \in Callers :
             (WaitEnds(c) /\ IsOk(calls'[c].ret)) =>
                LET h == calculate_hash(calls[c].content)
                IN /\ h \in DOMAIN cache'[SelfId]
                   /\ cache'[SelfId][h] = calls'[c].ret.score
                   /\ metrics'[SelfId] =
                        (metrics[SelfId] + calls[c].elapsed * Scale) \div 2
       /\ metrics'[SelfId] # metrics[SelfId] =>
             \E c \in Callers : WaitEnds(c) /\ IsOk(calls'[c].ret)]_vars

\* the first successful call took SlowDur ticks: its score is cached and
\* the average is half of its latency
C17_Witness ==
    \E c \in Callers :
        /\ calls[c].pc = "idle"
        /\ IsOk(calls[c].ret)
        /\ calls[c].job \in JobIds
        /\ jobs[calls[c].job].st = "received"
        /\ calls[c].elapsed = SlowDur
        /\ calculate_hash(calls[c].content) \in DOMAIN cache[SelfId]
        /\ cache[SelfId][calculate_hash(calls[c].content)] = calls[c].ret.score
        /\ metrics[SelfId] = (SlowDur * Scale) \div 2

\* ------------------------------------------------------ detector claims
Analyzed == detector.result # None

NoMatch(text) ==
    /\ text.harmful = {}
    /\ text.bias = {}
    /\ \A k \in 1..PrivacyPatterns : text.privacy[k] = 0
    /\ text.illegal = {}
    /\ text.misinformation = {}

CriticalMatch(text) == text.harmful # {} \/ text.illegal # {}

\* C18: a text in which no pattern of any category matches is analysed as
\* safe with score 1.0 and no violations, whatever the context.
C18_NoMatchIsSafe ==
    (Analyzed /\ NoMatch(detector.text)) =>
        /\ detector.result.safe
        /\ detector.result.score = One
        /\ detector.result.violations = <<>>

\* a text without matches was analysed with a context naming a field
C18_Witness ==
    /\ Analyzed
    /\ NoMatch(detector.text)
    /\ detector.context # None
    /\ detector.context.value \in FieldContexts
    /\ detector.result.safe
    /\ detector.result.score = One

\* C19 as stated: a text with a match of a critical pattern (harmful or
\* illegal content), analysed without context, is unsafe and scores at
\* most 0.05.
C19_Original ==
    (Analyzed /\ detector.context = None /\ CriticalMatch(detector.text)) =>
        /\ ~detector.result.safe
        /\ detector.result.score <= 500

\* C19 as the code has it: such a text is unsafe and scores at most 0.15,
\* the complement of the illegal-content confidence 0.85; it scores at most
\* 0.05 if a harmful-content pattern matches.
C19_CriticalScore ==
    (Analyzed /\ detector.context = None /\ CriticalMatch(detector.text)) =>
        /\ ~detector.result.safe
        /\ detector.result.score <= 1500
        /\ detector.text.harmful # {} => detector.result.score <= 500

\* a text whose only match is one illegal-content pattern scores 0.15
C19_Witness ==
    /\ Analyzed
    /\ detector.context = None
    /\ detector.text.illegal = {1}
    /\ detector.text.harmful = {}
    /\ Len(detector.result.violations) = 1
    /\ ~detector.result.safe
    /\ detector.result.score = 1500

\* C20: with a context naming medical, educational, academic or research
\* in any case, each violation found by the checks is lowered one step,
\* once: critical to high with 0.7 of its confidence, high to medium with
\* 0.8 of it, medium and low stay; type, description and evidence stay.
\* With another context or none the violations are those of the checks.
C20_ContextDowngrade ==
    Analyzed =>
        LET before == Checked(detector.text)
            after == detector.result.violations
            lowered == /\ detector.context # None
                       /\ detector.context.value \in FieldContexts
        IN /\ Len(after) = Len(before)
           /\ \A i \in 1..Len(before) :
                 /\ after[i].type = before[i].type
                 /\ after[i].description = before[i].description
                 /\ after[i].evidence = before[i].evidence
                 /\ IF lowered
                    THEN /\ before[i].severity = "critical" =>
                              /\ after[i].severity = "high"
                              /\ after[i].confidence = (before[i].confidence * 7) \div 10
                         /\ before[i].severity = "high" =>
                              /\ after[i].severity = "medium"
                              /\ after[i].confidence = (before[i].confidence * 8) \div 10
                         /\ before[i].severity \in {"medium", "low"} =>
                              after[i] = before[i]
                    ELSE after[i] = before[i]

\* harmful content, a privacy match and misinformation were analysed with
\* a context that names a field inside a word and in mixed case
C20_Witness ==
    /\ Analyzed
    /\ detector.context = Some(<<"b", "i", "o", "R", "e", "s", "e", "a", "r", "c", "h">>)
    /\ detector.text.harmful = {5}
    /\ detector.text.privacy[3] = 1
    /\ detector.text.misinformation = {4}
    /\ \E i \in 1..Len(detector.result.violations) :
          /\ detector.result.violations[i].type = "harmful_content"
          /\ detector.result.violations[i].severity = "high"
          /\ detector.result.violations[i].confidence = 665
    /\ \E i \in 1..Len(detector.result.violations) :
          /\ detector.result.violations[i].type = "privacy"
          /\ detector.result.violations[i].severity = "medium"
          /\ detector.result.violations[i].confidence = 720

\* number of matches of the privacy patterns in a text
RECURSIVE PrivacyMatches(_, _)
PrivacyMatches(text, k) ==
    IF k > PrivacyPatterns THEN 0 ELSE text.privacy[k] + PrivacyMatches(text, k + 1)

\* C21: every privacy violation of a result carries the evidence
\* ["[REDACTED]"] and nothing of the match, with and without context
\* adjustment, and there is one such violation for every match.
C21_PrivacyRedacted ==
    Analyzed =>
        LET vs == detector.result.violations
            privacy == {i \in 1..Len(vs) : vs[i].type = "privacy"}
        IN /\ \A i \in privacy : vs[i].evidence = <<[literal |-> "[REDACTED]"]>>
           /\ Cardinality(privacy) = PrivacyMatches(detector.text, 1)

\* two e-mail addresses and an SSN were found under a context naming a
\* field: three privacy violations, lowered to medium, all redacted
C21_Witness ==
    /\ Analyzed
    /\ detector.text.privacy[3] = 2
    /\ detector.text.privacy[1] = 1
    /\ detector.context # None
    /\ detector.context.value \in FieldContexts
    /\ Cardinality({i \in 1..Len(detector.result.violations) :
                      /\ detector.result.violations[i].type = "privacy"
                      /\ detector.result.violations[i].severity = "medium"
                      /\ detector.result.violations[i].evidence =
                            <<[literal |-> "[REDACTED]"]>>}) = 3

\* the weights of the claim, in 1/10
StatedWeight(severity) ==
    CASE severity = "low" -> 1
      [] severity = "medium" -> 3
      [] severity = "high" -> 6
      [] severity = "critical" -> 10

RECURSIVE StatedSum(_)
StatedSum(vs) ==
    IF vs = <<>> THEN 0
    ELSE StatedWeight(vs[1].severity) * vs[1].confidence + StatedSum(Tail(vs))

\* C22: the score of a result is 1 - min(1, sum of weight x confidence)
\* over the violations of the result, which are the adjusted ones; it lies
\* in [0, 1]; safe holds exactly when there is no violation.
C22_ScoreFormula ==
    Analyzed =>
        LET sum == StatedSum(detector.result.violations)
        IN /\ detector.result.score = One - (IF sum < One THEN sum ELSE One)
           /\ detector.result.score >= 0
           /\ detector.result.score <= One
           /\ detector.result.safe <=> detector.result.violations = <<>>

\* one harmful-content match under a context naming a field: the violation
\* is high with confidence 0.665 and the score is 1 - 0.6 x 0.665 = 0.601
C22_Witness ==
    /\ Analyzed
    /\ detector.context # None
    /\ detector.context.value \in FieldContexts
    /\ Len(detector.result.violations) = 1
    /\ detector.result.violations[1].type = "harmful_content"
    /\ detector.result.score = 6010
    /\ ~detector.result.safe

\* ------------------------------------------------------ registry claims
\* C23: while a job holds its read view the registry is the one the view
\* was taken of, so no registration takes effect during a job; the result
\* of a job is perform_analysis of that registry; and a worker can start a
\* job, taking its own view, while other jobs hold theirs.
C23_ReadersAndWriter ==
    /\ [](\A w \in WorkerIds :
            /\ workers[SelfId][w].st = "busy" => workers[SelfId][w].view = models
            /\ (workers[SelfId][w].st = "recv" /\ queue[SelfId] # <<>>) =>
                  ENABLED WorkerRecv(SelfId, w))
    /\ [][/\ models' # models => ~ReadGuardHeld
          /\ \A w \in WorkerIds :
                (workers[SelfId][w].st = "busy" /\ workers'[SelfId][w].st = "idle") =>
                   LET j == workers[SelfId][w].job
                   IN jobs'[j].result =
                        perform_analysis(jobs[j].content, workers[SelfId][w].view, now)]_vars

\* two jobs hold read views of the registry with model m1 at the same time
C23_Witness ==
    /\ config.thread_count = 2
    /\ models # <<>>
    /\ \A w \in 1..2 :
          /\ workers[SelfId][w].st = "busy"
          /\ workers[SelfId][w].left > 0
          /\ workers[SelfId][w].view = models
    /\ workers[SelfId][1].job # workers[SelfId][2].job

\* ---------------------------------------------- single-analysis claims
\* the steps of one analysis of caller c
HitsCache(c) ==
    /\ CallStarts(c)
    /\ calls'[c].pc = "idle"
    /\ IsOk(calls'[c].ret)
    /\ jobs' = jobs

Dispatches(c) ==
    /\ CallStarts(c)
    /\ calls'[c].pc = "waiting"
    /\ Len(jobs') = Len(jobs) + 1
    /\ calls'[c].job = Len(jobs')
    /\ jobs'[Len(jobs')].tx = c

Completes(c) ==
    /\ WaitEnds(c)
    /\ jobs[calls[c].job].st = "sent"
    /\ jobs'[calls[c].job].st = "received"
    /\ calls'[c].ret = jobs[calls[c].job].result

TimesOut(c) ==
    /\ WaitEnds(c)
    /\ jobs[calls[c].job].st # "sent"
    /\ calls[c].elapsed >= calls[c].timeout
    /\ calls'[c].ret = Err("ProcessingTimeout")

\* a job for caller c is created only by the step that starts a call of c,
\* and a waiting call keeps its job
NoRetry(c) ==
    /\ Len(jobs') <= Len(jobs) + 1
    /\ (Len(jobs') > Len(jobs) /\ jobs'[Len(jobs')].tx = c) => CallStarts(c)
    /\ (calls[c].pc = "waiting" /\ calls'[c].pc = "waiting") =>
          calls'[c].job = calls[c].job

\* C24 as stated: an analysis starts with a cache hit that returns a score
\* or with the dispatch of one job; a dispatched analysis ends by
\* completing with a score or by timing out with an error; it fails only
\* by timing out; no job is dispatched at any other point.
C24_Original ==
    [][\A c \in Callers :
          /\ CallStarts(c) => (HitsCache(c) \/ Dispatches(c))
          /\ WaitEnds(c) => ((Completes(c) /\ IsOk(calls'[c].ret)) \/ TimesOut(c))
          /\ NoRetry(c)]_vars

\* C24 as the code has it: a dispatched analysis ends by receiving the
\* result of its job, a score (done) or the error the job ended with
\* (failed), or by timing out (failed); the rest as stated.
C24_SingleAnalysisPaths ==
    [][\A c \in Callers :
          /\ CallStarts(c) => (HitsCache(c) \/ Dispatches(c))
          /\ WaitEnds(c) => (Completes(c) \/ TimesOut(c))
          /\ (WaitEnds(c) /\ IsErr(calls'[c].ret) /\ ~TimesOut(c)) =>
                IsErr(jobs[calls[c].job].result)
          /\ NoRetry(c)]_vars

\* one caller's analysis failed with the error of its completed job, the
\* other's by timing out
C24_Witness ==
    \E c1, c2 \in Callers :
        /\ calls[c1].pc = "idle"
        /\ calls[c1].ret = Err("ModelLoadError")
        /\ calls[c1].job \in JobIds
        /\ jobs[calls[c1].job].st = "received"
        /\ calls[c2].pc = "idle"
        /\ calls[c2].ret = Err("ProcessingTimeout")
        /\ calls[c2].job \in JobIds
        /\ jobs[calls[c2].job].gaveUp # "no"

\* ------------------------------------------------------ category claims
\* the (model name, category) pairs that the ready models report on a text
ReportedPairs(content) ==
    UNION {{<<models[i].name, k>> :
              k \in DOMAIN ModelAnalyze(models[i].model, content).score.categories} :
           i \in {n \in 1..Len(models) :
                     /\ is_ready(models[n].model)
                     /\ IsOk(ModelAnalyze(models[n].model, content))}}

\* C25 as stated: the category map of a returned score holds one entry
\* of its own for every (ready model, category) pair, whatever the names.
C25_NoKeyCollision ==
    \A c \in OneCaller :
        (Delivered(c) /\ IsOk(calls[c].ret)) =>
            Cardinality(DOMAIN calls[c].ret.score.categories)
               = Cardinality(ReportedPairs(calls[c].content))

\* model m reports category x_tox and model m_x reports category tox: the
\* returned score has a single category, m_x_tox
C25_Witness ==
    \E c \in OneCaller :
        /\ Delivered(c)
        /\ IsOk(calls[c].ret)
        /\ Cardinality(ReportedPairs(calls[c].content)) = 2
        /\ DOMAIN calls[c].ret.score.categories = {"m_x_tox"}

\* C26: the overall score of every returned SafetyScore, computed or from
\* the cache, is the arithmetic mean of the scores of its categories, and
\* 0 if it has no category.
C26_OverallIsMean ==
    \A c \in OneCaller :
        (calls[c].pc = "idle" /\ IsOk(calls[c].ret)) =>
            LET cats == calls[c].ret.score.categories
                n == Cardinality(DOMAIN cats)
            IN IF n = 0
               THEN calls[c].ret.score.overall_score = 0
               ELSE calls[c].ret.score.overall_score * n
                      = SumOver([k \in DOMAIN cats |-> cats[k].score], DOMAIN cats)

\* a returned score with the categories of two models, 100 and 80, and
\* overall score 90
C26_Witness ==
    \E c \in OneCaller :
        /\ calls[c].pc = "idle"
        /\ IsOk(calls[c].ret)
        /\ DOMAIN calls[c].ret.score.categories = {"m1_tox", "m2_policy"}
        /\ calls[c].ret.score.categories["m1_tox"].score = 100
        /\ calls[c].ret.score.categories["m2_policy"].score = 80
        /\ calls[c].ret.score.overall_score = 90

\* --------------------------------------------------- sequential batches
\* C27: in sequential mode item batch.idx is the one being analyzed: every
\* earlier item has succeeded and its score is in the cache, no later item
\* has a result, at most one job per item so far was dispatched, and only
\* texts of items so far are cached; a failed batch stopped at its first
\* failing item, whose error it returns, with exactly the earlier items
\* cached.
C27_SequentialShortCircuit ==
    (~Parallel /\ batch.pc # "idle") =>
        LET k == batch.idx
            done == {i \in Items : i < k}
            sofar == {i \in Items : i <= k}
        IN /\ \A i \in Items : i > k => batch.results[i] = None
           /\ \A i \in done :
                 /\ IsOk(batch.results[i])
                 /\ calculate_hash(batch.contents[i]) \in DOMAIN cache[SelfId]
                 /\ cache[SelfId][calculate_hash(batch.contents[i])] = batch.results[i].score
           /\ Len(jobs) <= Cardinality(sofar)
           /\ \A j \in JobIds : \E i \in sofar : jobs[j].content = batch.contents[i]
           /\ DOMAIN cache[SelfId] \subseteq {calculate_hash(batch.contents[i]) : i \in sofar}
           /\ (BatchDone /\ IsErr(batch.ret)) =>
                 /\ k \in Items
                 /\ batch.ret = batch.results[k]
                 /\ DOMAIN cache[SelfId] = {calculate_hash(batch.contents[i]) : i \in done}
           /\ (BatchDone /\ IsOk(batch.ret)) => k >= Len(batch.contents)

\* a sequential batch of two failed at its first item: the second item
\* was never analyzed
C27_Witness ==
    /\ ~Parallel
    /\ BatchDone
    /\ IsErr(batch.ret)
    /\ Len(batch.contents) = 2
    /\ batch.idx = 1
    /\ batch.results[2] = None
    /\ Len(jobs) = 1
    /\ cache[SelfId] = EmptyMap

\* -------------------------------------------------------- bounded pool
\* the jobs of pool a that are being executed
Executing(a) == {j \in JobIds : jobs[j].an = a /\ jobs[j].st = "running"}

\* C28: a pool of N workers executes at most N jobs at a time; the other
\* submitted jobs wait in its queue in submission order and are started in
\* that order; a worker that executes a job does not hold the lock of the
\* queue, so a worker waiting for it can take the next job meanwhile.
C28_BoundedPool ==
    /\ [](\A a \in AnalyzerIds :
            /\ Cardinality(Executing(a)) <= config.thread_count
            /\ \A i, k \in 1..Len(queue[a]) : i < k => queue[a][i] < queue[a][k]
            /\ \A j \in JobIds :
                  jobs[j].an = a =>
                     /\ jobs[j].st = "queued" <=> TimesQueued(a, j) = 1
                     /\ \A e \in JobIds :
                           (jobs[e].an = a /\ e < j /\ jobs[j].st # "queued") =>
                               jobs[e].st # "queued"
            /\ \A w \in WorkerIds :
                  workers[a][w].st = "busy" => receiverLock[a] # w)
    /\ [][\A a \in AnalyzerIds : \A j \in JobIds :
             (jobs[j].an = a /\ jobs[j].st = "queued" /\ jobs'[j].st = "running") =>
                 (j = Head(queue[a]) /\ queue'[a] = Tail(queue[a]))]_vars

\* a pool of two executes two jobs at once while a third job waits in the
\* queue, and the lock of the queue is free
C28_Witness ==
    /\ config.thread_count = 2
    /\ Cardinality(Executing(SelfId)) = 2
    /\ Len(queue[SelfId]) >= 1
    /\ \A w \in 1..2 : workers[SelfId][w].st = "busy" /\ workers[SelfId][w].left > 0
    /\ receiverLock[SelfId] = 0

\* --------------------------------------------------------- orphaned jobs
\* the jobs whose caller has returned and that are still queued or running
PendingOrphans == {j \in JobIds : Orphan(j) /\ jobs[j].st \in {"queued", "running"}}

\* C29: however many orphaned jobs are pending, a call that misses the
\* cache can dispatch its job, which is appended to the queue; every
\* timeout adds its job to the pending orphans; an orphan leaves them only
\* by running to its end.  (Dispatch is limited by the model's JobLimit
\* alone.)
C29_OrphansAccumulate ==
    /\ [](\A c \in Callers : \A content \in SpecTexts : \A timeout \in Timeouts :
            (/\ life[SelfId].st = "alive"
             /\ calls[c].pc = "idle"
             /\ ~Cached(SelfId, calculate_hash(content))
             /\ Len(jobs) < JobLimit) => ENABLED Dispatch(c, content, timeout))
    /\ [][/\ \A c \in Callers :
                (WaitEnds(c) /\ jobs[calls[c].job].st # "sent") =>
                    PendingOrphans' = PendingOrphans \cup {calls[c].job}
          /\ Len(jobs') > Len(jobs) =>
                /\ queue'[SelfId] = Append(queue[SelfId], Len(jobs'))
                /\ PendingOrphans' = PendingOrphans
          /\ \A j \in PendingOrphans \ PendingOrphans' :
                jobs[j].st = "running" /\ jobs'[j].st = "discarded"]_vars

\* a pool of one worker with two pending orphans, one running, one queued
C29_Witness ==
    /\ config.thread_count = 1
    /\ Cardinality(PendingOrphans) > config.thread_count
    /\ \E j \in PendingOrphans : jobs[j].st = "running"
    /\ \E j \in PendingOrphans : jobs[j].st = "queued"

\* ------------------------------------------------------- cache retention
\* C30: the cache holds one score per fingerprint; a step never removes an
\* entry, and adds at most the fingerprint of the text whose result was
\* received, whatever config.cache_size is.
C30_CacheNeverEvicts ==
    [][\A a \in DOMAIN cache :
          /\ DOMAIN cache[a] \subseteq DOMAIN cache'[a]
          /\ \A h \in DOMAIN cache'[a] \ DOMAIN cache[a] :
                \E c \in Callers :
                   /\ Completes(c)
                   /\ h = calculate_hash(calls[c].content)
                   /\ DOMAIN cache'[a] = DOMAIN cache[a] \cup {h}]_vars

\* two texts analysed: the cache holds more entries than config.cache_size
C30_Witness ==
    /\ Cardinality(DOMAIN cache[SelfId]) > config.cache_size
    /\ \A content \in SpecTexts : Cached(SelfId, calculate_hash(content))

\* ------------------------------------------------ failures and the cache
\* C31: the step in which a call returns an error, and the step in which a
\* call dispatches its job, leave the cache and the metrics as they were;
\* every cache entry is the score of a successful result that a caller
\* received for a text of that fingerprint.
C31_FailuresNotCached ==
    /\ [](\A a \in AnalyzerIds : \A h \in DOMAIN cache[a] :
            \E j \in JobIds :
               /\ jobs[j].an = a
               /\ jobs[j].st = "received"
               /\ calculate_hash(jobs[j].content) = h
               /\ IsOk(jobs[j].result)
               /\ jobs[j].result.score = cache[a][h])
    /\ [][\A c \in ThreadIds :
            ((WaitEnds(c) /\ IsErr(calls'[c].ret)) \/ Dispatches(c)) =>
                (cache' = cache /\ metrics' = metrics)]_vars

\* a model's error was returned while the cache holds an earlier success
\* and nothing for the failing text
C31_Witness ==
    \E c \in OneCaller :
        /\ calls[c].pc = "idle"
        /\ calls[c].ret = Err("InvalidContent")
        /\ jobs[calls[c].job].st = "received"
        /\ cache[SelfId] # EmptyMap
        /\ metrics[SelfId] > 0
        /\ calculate_hash(calls[c].content) \notin DOMAIN cache[SelfId]

\* ------------------------------------------- batch modes and the cache
\* C32: in parallel mode no step of the batch thread or of an item thread
\* changes the caller's cache, metrics or queue; the call of item i finds
\* analyzer i with an empty cache, zero metrics and an idle pool, and
\* dispatches a job there even when the caller's cache holds the text; a
\* running job reads the caller's registry.  In sequential mode the call
\* of an item returns the caller's cache entry when there is one, and a
\* score it receives is written to the caller's cache.
C32_ParallelBatchFrame ==
    /\ [](\A a \in AnalyzerIds : \A w \in WorkerIds :
            workers[a][w].st = "busy" => workers[a][w].view = models)
    /\ [][IF Parallel
          THEN /\ \A c \in ThreadIds \ {OtherCaller} :
                     calls'[c] # calls[c] =>
                        /\ cache'[SelfId] = cache[SelfId]
                        /\ metrics'[SelfId] = metrics[SelfId]
                        /\ queue'[SelfId] = queue[SelfId]
               /\ \A i \in 1..MaxBatch :
                     CallStarts(ItemThread(i)) =>
                        /\ Dispatches(ItemThread(i))
                        /\ jobs'[Len(jobs')].an = i
                        /\ cache[i] = EmptyMap
                        /\ metrics[i] = 0
                        /\ queue[i] = <<>>
                        /\ \A w \in WorkerIds : workers[i][w].st # "busy"
                        /\ queue'[i] = <<Len(jobs')>>
          ELSE LET c == BatchThread
                   h == calculate_hash(calls'[c].content)
               IN /\ (CallStarts(c) /\ h \in DOMAIN cache[SelfId]) =>
                        (HitsCache(c) /\ calls'[c].ret = Ok(cache[SelfId][h]))
                  /\ (Completes(c) /\ IsOk(calls'[c].ret)) =>
                        /\ h \in DOMAIN cache'[SelfId]
                        /\ cache'[SelfId][h] = calls'[c].ret.score]_vars

\* a parallel batch is done whose text the caller's cache held before the
\* item was analysed: the item's job ran on the item's analyzer and filled
\* the item's cache
C32_Witness ==
    /\ BatchDone /\ Parallel /\ IsOk(batch.ret)
    /\ \E j1, j2 \in JobIds :
          /\ j1 < j2
          /\ jobs[j1].an = SelfId /\ jobs[j1].st = "received"
          /\ jobs[j2].an = 1 /\ jobs[j2].st = "received"
          /\ jobs[j1].content = jobs[j2].content
          /\ jobs[j1].result.score.timestamp < jobs[j2].result.score.timestamp
          /\ LET h == calculate_hash(jobs[j1].content)
             IN /\ cache[SelfId][h] = jobs[j1].result.score
                /\ cache[1][h] = jobs[j2].result.score

\* ------------------------------------------------- the end of a batch
\* C33: a parallel batch has returned only if every item thread has
\* terminated; an item thread has terminated only if the drop of its pool
\* has returned; the drop of a pool has returned only if its workers have
\* exited and every job dispatched to it has run to its end, the jobs whose
\* caller timed out included.
C33_BatchWaitsForJobs ==
    /\ (BatchDone /\ Parallel) => \A i \in Items : Terminated(i)
    /\ \A i \in 1..MaxBatch :
          life[i].st = "dropped" =>
             /\ \A w \in WorkerIds : workers[i][w].st = "exited"
             /\ queue[i] = <<>>
             /\ \A j \in JobIds :
                   jobs[j].an = i =>
                      /\ jobs[j].st \in {"received", "discarded"}
                      /\ jobs[j].runs = 1
                      /\ jobs[j].result # None

\* a parallel batch returned later than the configured timeout: its item
\* got ProcessingTimeout and the batch waited for the job to end
C33_Witness ==
    /\ BatchDone /\ Parallel
    /\ now > config.timeout_ms
    /\ \E i \in Items : \E j \in JobIds :
          /\ calls[ItemThread(i)].ret = Err("ProcessingTimeout")
          /\ jobs[j].an = i
          /\ Orphan(j)
          /\ jobs[j].st = "discarded"
          /\ IsOk(jobs[j].result)

\* ------------------------------------------------- concurrent requests
\* C34: while a call waits for its job, another thread's call can check
\* the cache: it dispatches a job of its own when the text is not cached,
\* the same text as the waiting call's included, and returns the entry
\* when it is; a call that receives a score writes it under the text's
\* fingerprint whether an entry is there or not.
C34_NotCoalesced ==
    /\ [](\A c, d \in Callers :
            (/\ c # d
             /\ calls[d].pc = "waiting"
             /\ calls[c].pc = "idle"
             /\ life[SelfId].st = "alive") =>
                \A content \in SpecTexts : \A timeout \in Timeouts :
                   IF Cached(SelfId, calculate_hash(content))
                   THEN ENABLED CacheHit(c, content, timeout)
                   ELSE Len(jobs) < JobLimit => ENABLED Dispatch(c, content, timeout))
    /\ [][\A c \in Callers :
            /\ (CallStarts(c) /\ ~Cached(SelfId, calculate_hash(calls'[c].content))) =>
                   /\ Dispatches(c)
                   /\ jobs'[Len(jobs')].content = calls'[c].content
                   /\ \A j \in JobIds : jobs'[j] = jobs[j]
            /\ (Completes(c) /\ IsOk(calls'[c].ret)) =>
                   cache'[SelfId] = [x \in DOMAIN cache[SelfId]
                                          \cup {calculate_hash(calls[c].content)} |->
                                       IF x = calculate_hash(calls[c].content)
                                       THEN calls'[c].ret.score
                                       ELSE cache[SelfId][x]]]_vars

\* two threads each had a job run for the same text; both received a
\* score, the scores differ, and the cache holds the one written last
C34_Witness ==
    \E j1, j2 \in JobIds :
        /\ jobs[j1].tx # jobs[j2].tx
        /\ jobs[j1].content = jobs[j2].content
        /\ jobs[j1].st = "received" /\ jobs[j2].st = "received"
        /\ IsOk(jobs[j1].result) /\ IsOk(jobs[j2].result)
        /\ jobs[j1].result # jobs[j2].result
        /\ since[jobs[j1].tx].write
        /\ cache[SelfId][calculate_hash(jobs[j1].content)] = jobs[j2].result.score

\* --------------------------------------------- cache hits and texts
\* C35: the score a cache hit returns is the result of a job that analysed
\* the text of the request.
C35_HitSameText ==
    [][\A c \in Callers :
          HitsCache(c) =>
             \E j \in JobIds :
                /\ jobs[j].content = calls'[c].content
                /\ jobs[j].st = "received"
                /\ jobs[j].result = calls'[c].ret]_vars

\* a request on text D returned the score computed for text A: no job
\* ever analysed D, and the score says D is not toxic
C35_Witness ==
    \E c \in Callers :
        /\ calls[c].pc = "idle"
        /\ calls[c].content = "D"
        /\ IsOk(calls[c].ret)
        /\ calls[c].ret.score.flags = <<>>
        /\ \A j \in JobIds : jobs[j].content = "A"
        /\ IsOk(perform_analysis("D", models, now))
        /\ perform_analysis("D", models, now).score.flags # <<>>

\* ------------------------------------------ the cache and the registry
\* C36: a step that changes the registry changes nothing else of the
\* analyzer: cache, metrics, pool, jobs and calls stay; a later call on a
\* cached text returns the entry, which is the result of the job that ran
\* before, and starts no job.
C36_RegisterKeepsCache ==
    [][/\ models' # models =>
             /\ cache' = cache
             /\ metrics' = metrics
             /\ jobs' = jobs
             /\ calls' = calls
             /\ <<sender, queue, receiverLock, workers>>' =
                   <<sender, queue, receiverLock, workers>>
       /\ \A c \in OneCaller :
             (CallStarts(c) /\ calculate_hash(calls'[c].content) \in DOMAIN cache[SelfId]) =>
                 /\ HitsCache(c)
                 /\ calls'[c].ret = Ok(cache[SelfId][calculate_hash(calls'[c].content)])
                 /\ \E j \in JobIds :
                       /\ jobs[j].content = calls'[c].content
                       /\ jobs[j].st = "received"
                       /\ jobs[j].result = calls'[c].ret]_vars

\* text B was cached, then a model that rejects B was registered: a later
\* call on B returned the cached score, which the registry no longer gives
C36_Witness ==
    \E c \in OneCaller :
        /\ calls[c].pc = "idle"
        /\ calls[c].content = "B"
        /\ IsOk(calls[c].ret)
        /\ since[c] = Quiet
        /\ calls[c].job = 0
        /\ calls[c].ret = Ok(cache[SelfId][calculate_hash("B")])
        /\ IsErr(perform_analysis("B", models, now))

\* ------------------------------------------------ the pool's capacity
\* the workers of pool a that are in their loop
LiveWorkers(a) == {w \in WorkerIds : workers[a][w].st \in {"idle", "recv", "busy"}}

\* C37: as long as the pool is not dropped, all of its thread_count
\* workers are in their loop, and no call of execute has failed.
C37_CapacityKept ==
    life[SelfId].st = "alive" =>
        /\ Cardinality(LiveWorkers(SelfId)) = config.thread_count
        /\ \A c \in Callers : calls[c].pc # "panicked"

\* a pool of one worker lost it to a panicking job, and a later call
\* panicked in execute
C37_Witness ==
    /\ life[SelfId].st = "alive"
    /\ config.thread_count = 1
    /\ LiveWorkers(SelfId) = {}
    /\ \E j \in JobIds : jobs[j].st = "panicked"
    /\ \E c \in Callers : calls[c].pc = "panicked"

\* ------------------------------------------------ a failing ready model
\* the ready models of the registry that fail on the text
FailingModels(content) ==
    {i \in 1..Len(models) : /\ is_ready(models[i].model)
                            /\ IsErr(ModelAnalyze(models[i].model, content))}

\* the time the ready models up to entry i take
RECURSIVE TimeUpTo(_, _)
TimeUpTo(content, i) ==
    IF i = 0 THEN 0
    ELSE TimeUpTo(content, i - 1)
         + (IF is_ready(models[i].model) THEN ModelDuration(models[i].model, content) ELSE 0)

\* the first ready model of the registry that fails on the text
FirstFailing(content) ==
    CHOOSE i \in FailingModels(content) : \A k \in FailingModels(content) : i <= k

\* C38: when a ready model fails on the text, the job runs for the time of
\* the ready models up to the first failing one, its result is that
\* model's error, the call that receives it returns this error, and the
\* text is not cached.
C38_FirstErrorAborts ==
    /\ [](\A j \in JobIds :
            LET content == jobs[j].content
            IN FailingModels(content) # {} =>
                  LET error == ModelAnalyze(models[FirstFailing(content)].model, content)
                  IN /\ jobs[j].result # None => jobs[j].result = error
                     /\ \A c \in OneCaller :
                           (Delivered(c) /\ calls[c].job = j) => calls[c].ret = error
                     /\ calculate_hash(content) \notin DOMAIN cache[SelfId])
    /\ [][\A j \in JobIds :
            (/\ jobs[j].st = "queued"
             /\ jobs'[j].st = "running"
             /\ FailingModels(jobs[j].content) # {}) =>
                \E w \in WorkerIds :
                   /\ workers'[SelfId][w].job = j
                   /\ workers'[SelfId][w].left =
                         TimeUpTo(jobs[j].content, FirstFailing(jobs[j].content))]_vars

\* two ready models fail on the text with different errors, after the
\* first of them nothing was queried; the call returned the first error
C38_Witness ==
    \E c \in OneCaller :
        /\ Delivered(c)
        /\ Cardinality(FailingModels(calls[c].content)) = 2
        /\ ModelAnalyze(models[1].model, calls[c].content)
              # ModelAnalyze(models[2].model, calls[c].content)
        /\ calls[c].ret = ModelAnalyze(models[1].model, calls[c].content)
        /\ calls[c].elapsed = ModelDuration(models[1].model, calls[c].content)
        /\ cache[SelfId] # EmptyMap

====
